---------------------------- MODULE Spec2Model ----------------------------
(***************************************************************************)
(* Stored-procedure export comparison tools (miter91/Hello-World).         *)
(*                                                                         *)
(* A text is a sequence of characters; a character is a one-character      *)
(* string.  The literal markers of the export format                       *)
(* ("=== STORED PROCEDURE START ===", "Database:", ...) are single         *)
(* elements of a text: the regular expressions and string tests of the     *)
(* code match them as wholes.                                              *)
(*                                                                         *)
(* The repository holds several programs that re-implement the same        *)
(* pipeline.  The variable `variant` names the program that is running:    *)
(*   "csp"    compare_stored_procedures.py                                 *)
(*   "sproc"  sproc_compare.py                                             *)
(*   "latest" compare_storeprocs_latest.py                                 *)
(*   "simple" simple_compare.py                                            *)
(*   "fixed"  fixed_compare.py                                             *)
(*   "missing" find_missing.py                                             *)
(***************************************************************************)
EXTENDS Integers, Sequences, FiniteSets, TLC

VARIABLES
    variant,          \* the program that runs
    pc,               \* position of the run
    text,             \* normalizer run: the definition text given
    other,            \* normalizer run: a second definition derived from text
    edit,             \* normalizer run: how `other` was derived from `text`
    nText,            \* normalize(text)
    nOther,           \* normalize(other)
    nnText,           \* normalize(normalize(text))
    source_blocks,    \* the blocks the source export was written from
    target_blocks,    \* the blocks the target export was written from
    source_file,      \* the characters of the source export
    target_file,      \* the characters of the target export
    side,             \* the export being parsed: "source" or "target"
    content,          \* parser: the text read from the export
    pos,              \* parser: scan position (index of the line, in simple)
    procedures,       \* parser: the mapping under construction
    current_proc,     \* parser of simple_compare.py: the block being read
    current_def,      \* parser of simple_compare.py: its definition lines
    in_definition,    \* parser of simple_compare.py: inside the definition
    source_procs,     \* the mapping parsed from the source export
    target_procs,     \* the mapping parsed from the target export
    only_in_source,   \* result: keys only in source
    only_in_target,   \* result: keys only in target
    different_procs,  \* result: changed keys and their diffs
    source_path,      \* what is at the source path: "ok", "absent", "unreadable"
    target_path,      \* what is at the target path
    now,              \* the clock, in ticks
    run,              \* number of the run (one process per run)
    out_dir,          \* the output directory: file name -> what was written
    exit_status,      \* exit status of the process, once it has ended
    console           \* the error reports of the run, with their stream

normVars == <<text, other, edit, nText, nOther, nnText>>
inputVars == <<source_blocks, target_blocks, source_file, target_file,
               source_path, target_path>>
loopVars == <<content, pos, procedures, current_proc, current_def, in_definition>>
mapVars == <<source_procs, target_procs>>
resultVars == <<only_in_source, only_in_target, different_procs>>

outVars == <<now, run, out_dir>>
exitVars == <<exit_status, console>>

pipeVars == <<inputVars, side, loopVars, mapVars, resultVars, outVars, exitVars>>

vars == <<variant, pc, normVars, pipeVars>>

(***************************************************************************)
(* Bounds of the model.                                                    *)
(***************************************************************************)
MaxPieces == 3        \* a definition text is built from at most this many pieces
MaxBlocks == 2        \* blocks in an export that is compared
MaxParseBlocks == 2   \* blocks in an export that is only parsed
MaxRuns == 2          \* runs of a program into the same output directory

NotSet == <<"<unset>">>

(***************************************************************************)
(* Characters.                                                             *)
(***************************************************************************)
IsSpace(c) == c \in {" ", "\n", "\r", "\t", "\f"}

LowerChar(c) ==
    CASE c = "A" -> "a"
      [] c = "B" -> "b"
      [] c = "D" -> "d"
      [] c = "P" -> "p"
      [] c = "Q" -> "q"
      [] c = "Database:" -> "database:"
      [] c = "Schema:" -> "schema:"
      [] c = "Name:" -> "name:"
      [] c = "Unknown" -> "unknown"
      [] c = "=== STORED PROCEDURE START ===" -> "=== stored procedure start ==="
      [] c = "=== STORED PROCEDURE END ===" -> "=== stored procedure end ==="
      [] c = "--- DEFINITION START ---" -> "--- definition start ---"
      [] c = "--- DEFINITION END ---" -> "--- definition end ---"
      [] OTHER -> c

UpperChar(c) ==
    CASE c = "a" -> "A"
      [] c = "b" -> "B"
      [] c = "d" -> "D"
      [] c = "p" -> "P"
      [] c = "q" -> "Q"
      [] OTHER -> c

\* str.lower()
Lower(s) == [i \in 1..Len(s) |-> LowerChar(s[i])]

\* The suffix of s that starts at index i (s[i-1:] in Python).
From(s, i) == SubSeq(s, i, Len(s))

\* str.lstrip(), str.rstrip(), str.strip()
RECURSIVE LStrip(_)
LStrip(s) ==
    IF s # <<>> /\ IsSpace(Head(s)) THEN LStrip(Tail(s)) ELSE s

RECURSIVE RStrip(_)
RStrip(s) ==
    IF s # <<>> /\ IsSpace(s[Len(s)]) THEN RStrip(SubSeq(s, 1, Len(s) - 1)) ELSE s

Strip(s) == RStrip(LStrip(s))

\* re.sub(r'\s+', ' ', s): every maximal whitespace run becomes one space.
RECURSIVE SubWhitespace(_)
SubWhitespace(s) ==
    IF s = <<>> THEN <<>>
    ELSE IF IsSpace(Head(s))
         THEN <<" ">> \o SubWhitespace(LStrip(s))
         ELSE <<Head(s)>> \o SubWhitespace(Tail(s))

\* ' '.join(s.split()): whitespace runs collapsed, no leading or trailing space.
SplitJoin(s) == Strip(SubWhitespace(s))

\* Index of the first "\n" of s at or after i, or Len(s)+1.
RECURSIVE LineEnd(_, _)
LineEnd(s, i) ==
    IF i > Len(s) \/ s[i] = "\n" THEN i ELSE LineEnd(s, i + 1)

\* A removal of the "--" markers alone, which leaves the comment text.
RECURSIVE SubLineComments_MarkerOnly(_)
SubLineComments_MarkerOnly(s) ==
    IF s = <<>> THEN <<>>
    ELSE IF Len(s) >= 2 /\ s[1] = "-" /\ s[2] = "-"
         THEN SubLineComments_MarkerOnly(From(s, 3))
         ELSE <<Head(s)>> \o SubLineComments_MarkerOnly(Tail(s))

\* re.sub(r'--[^\n]*', '', s): from each "--" to the end of its line.
RECURSIVE SubLineComments(_)
SubLineComments(s) ==
    IF s = <<>> THEN <<>>
    ELSE IF Len(s) >= 2 /\ s[1] = "-" /\ s[2] = "-"
         THEN SubLineComments(From(s, LineEnd(s, 1)))
         ELSE <<Head(s)>> \o SubLineComments(Tail(s))

\* Index of the first "*/" of s that starts at or after i, or 0.
RECURSIVE CloseAt(_, _)
CloseAt(s, i) ==
    IF i + 1 > Len(s) THEN 0
    ELSE IF s[i] = "*" /\ s[i + 1] = "/" THEN i
    ELSE CloseAt(s, i + 1)

\* re.sub(r'/\*.*?\*/', '', s, flags=re.DOTALL): from each "/*" to the
\* nearest following "*/"; an open marker with no close marker stays.
RECURSIVE SubBlockComments(_)
SubBlockComments(s) ==
    IF s = <<>> THEN <<>>
    ELSE IF Len(s) >= 2 /\ s[1] = "/" /\ s[2] = "*" /\ CloseAt(s, 3) # 0
         THEN SubBlockComments(From(s, CloseAt(s, 3) + 2))
         ELSE <<Head(s)>> \o SubBlockComments(Tail(s))

(***************************************************************************)
(* The normalizers.                                                        *)
(***************************************************************************)
\* compare_stored_procedures.py: whitespace first, then comments.
get_normalized_definition(definition) ==
    Strip(Lower(SubBlockComments(SubLineComments(SubWhitespace(definition)))))

\* sproc_compare.py and compare_storeprocs_latest.py (the same statements).
normalize_for_comparison(t) ==
    Lower(SplitJoin(SubBlockComments(SubLineComments(t))))

\* simple_compare.py: r'--.*$' with re.MULTILINE removes to the end of the
\* line as well ('.' does not match "\n", '$' matches before each "\n").
normalize_sql(sql_text) ==
    Strip(Lower(SplitJoin(SubBlockComments(SubLineComments(sql_text)))))

\* fixed_compare.py: lower-case and collapse whitespace, comments are kept.
normalized_def(definition) == SplitJoin(Lower(definition))

NormVariants == {"csp", "sproc", "latest", "simple", "fixed"}

Normalize(v, t) ==
    CASE v = "csp" -> get_normalized_definition(t)
      [] v = "sproc" -> normalize_for_comparison(t)
      [] v = "latest" -> normalize_for_comparison(t)
      [] v = "simple" -> normalize_sql(t)
      [] v = "fixed" -> normalized_def(t)

(***************************************************************************)
(* The export format.                                                      *)
(***************************************************************************)
PROC_START == "=== STORED PROCEDURE START ==="
PROC_END == "=== STORED PROCEDURE END ==="
DEF_START == "--- DEFINITION START ---"
DEF_END == "--- DEFINITION END ---"
L_DATABASE == "Database:"
L_SCHEMA == "Schema:"
L_NAME == "Name:"

\* f.read() of a file opened in text mode: "\r\n" and "\r" are read as "\n".
RECURSIVE ReadText(_)
ReadText(bytes) ==
    IF bytes = <<>> THEN <<>>
    ELSE IF Head(bytes) = "\r"
         THEN <<"\n">> \o ReadText(IF Len(bytes) >= 2 /\ bytes[2] = "\n"
                                   THEN From(bytes, 3) ELSE Tail(bytes))
         ELSE <<Head(bytes)>> \o ReadText(Tail(bytes))

\* A byte that is not valid UTF-8 (0xE9), and the character latin-1 makes
\* of it.
BAD_BYTE == "<byte E9>"
E_ACUTE == "<e acute>"

\* The encodings a program tries, in the order it tries them.
Encodings(v) ==
    CASE v = "csp" -> <<"utf-8-sig">>
      [] v = "sproc" -> <<"utf-8", "utf-8-sig", "latin-1", "cp1252">>
      [] v = "latest" -> <<"utf-8-sig">>
      [] v = "simple" -> <<"utf-8-sig", "latin-1">>
      [] v = "fixed" -> <<"utf-8-sig">>
      [] v = "missing" -> <<"utf-8", "utf-8-sig", "latin-1">>

Decodable(encoding, bytes) ==
    \/ encoding \in {"latin-1", "cp1252"}
    \/ \A i \in 1..Len(bytes) : bytes[i] # BAD_BYTE

Decode(encoding, bytes) ==
    ReadText([i \in 1..Len(bytes) |-> IF bytes[i] = BAD_BYTE THEN E_ACUTE ELSE bytes[i]])

\* open(path, 'r', encoding=...) and f.read() under the encodings of the
\* program: the text of the first attempt that succeeds; when none does,
\* sproc_compare.py goes on with content None, in the other programs the
\* exception of the last attempt leaves the program.
Open(v, path, bytes) ==
    LET encs == Encodings(v)
        good == { i \in 1..Len(encs) : path = "ok" /\ Decodable(encs[i], bytes) }
        first == CHOOSE i \in good : \A j \in good : i <= j
    IN  IF good # {}
        THEN [outcome |-> "text", text |-> Decode(encs[first], bytes), error |-> "none"]
        ELSE IF v = "sproc"
        THEN [outcome |-> "none", text |-> <<>>, error |-> "Could not read file"]
        ELSE [outcome |-> "raise", text |-> <<>>,
              error |-> IF path = "absent" THEN "FileNotFoundError"
                        ELSE IF path = "unreadable" THEN "PermissionError"
                        ELSE "UnicodeDecodeError: 'utf-8' codec"]

\* Index of the first element of s at or after i that equals x, or 0
\* (str.find, and the start of a regular-expression match of a literal).
RECURSIVE IndexFrom(_, _, _)
IndexFrom(s, x, i) ==
    IF i > Len(s) THEN 0
    ELSE IF s[i] = x THEN i
    ELSE IndexFrom(s, x, i + 1)

\* Index of the first element of s at or after i that is not whitespace,
\* or Len(s)+1: where a greedy \s* ends.
RECURSIVE SkipSpace(_, _)
SkipSpace(s, i) ==
    IF i > Len(s) \/ ~IsSpace(s[i]) THEN i ELSE SkipSpace(s, i + 1)

\* Index of the first element of s at or after i that is in stops, or
\* Len(s)+1: where a greedy [^...]+ ends.
RECURSIVE RunEnd(_, _, _)
RunEnd(s, i, stops) ==
    IF i > Len(s) \/ s[i] \in stops THEN i ELSE RunEnd(s, i + 1, stops)

\* The greedy \S+ that starts at index i of s: it ends before the first
\* whitespace.  A marker has blanks inside it, so the run ends after the
\* first word of a marker.
RECURSIVE Word(_, _)
Word(s, i) ==
    IF i > Len(s) \/ IsSpace(s[i]) THEN <<>>
    ELSE IF s[i] \in {DEF_START, DEF_END} THEN <<"-", "-", "-">>
    ELSE IF s[i] \in {PROC_START, PROC_END} THEN <<"=", "=", "=">>
    ELSE <<s[i]>> \o Word(s, i + 1)

\* Largest index p in lo..Len(s) with s[p] not in stops, or 0.
RECURSIVE LastNonStop(_, _, _)
LastNonStop(s, lo, stops) ==
    IF Len(s) < lo THEN 0
    ELSE IF s[Len(s)] \notin stops THEN Len(s)
    ELSE LastNonStop(SubSeq(s, 1, Len(s) - 1), lo, stops)

NoMatch == [found |-> FALSE, group |-> <<>>]
Match(g) == [found |-> TRUE, group |-> g]

\* re.search(label + r'\s*([^\n\r]+)', content): the first occurrence of the
\* label, any whitespace after it (line breaks included), then the rest of
\* the line reached.  When only whitespace follows the label the match
\* backtracks to the last character that is not a line break.
SearchLine(txt, label, stops) ==
    LET k == IndexFrom(txt, label, 1)
        m == SkipSpace(txt, k + 1)
        p == LastNonStop(txt, k + 1, stops)
    IN  IF k = 0 THEN NoMatch
        ELSE IF m <= Len(txt)
             THEN Match(SubSeq(txt, m, RunEnd(txt, m, stops) - 1))
        ELSE IF p = 0 THEN NoMatch
        ELSE Match(SubSeq(txt, p, RunEnd(txt, p, stops) - 1))

\* re.search(label + r'\s*(\S+)', proc_section)
SearchWord(proc_section, label) ==
    LET k == IndexFrom(proc_section, label, 1)
        m == SkipSpace(proc_section, k + 1)
    IN  IF k = 0 \/ m > Len(proc_section) THEN NoMatch
        ELSE Match(Word(proc_section, m))

\* re.search(r'--- DEFINITION START ---(.*?)--- DEFINITION END ---', block,
\* re.DOTALL)
SearchDefinition(block) ==
    LET a == IndexFrom(block, DEF_START, 1)
        e == IndexFrom(block, DEF_END, a + 1)
    IN  IF a = 0 \/ e = 0 THEN NoMatch
        ELSE Match(SubSeq(block, a + 1, e - 1))

\* StoredProcedureComparer._extract_value
_extract_value(txt, label) ==
    LET match == SearchLine(txt, label, {"\n", "\r"})
    IN  IF match.found THEN Strip(match.group) ELSE <<>>

\* f"{database}.{schema}.{name}"
FullName(database, schema, name) ==
    database \o <<".">> \o schema \o <<".">> \o name

\* The outcome of one block: whether it is stored, under which key, and
\* what is stored.
Skip == [accept |-> FALSE, key |-> <<>>, full_name |-> <<>>, definition |-> <<>>]
Accept(k, fn, d) == [accept |-> TRUE, key |-> k, full_name |-> fn, definition |-> d]

\* compare_stored_procedures.py, the body of the loop of parse_file.
ParseBlockCsp(proc_content) ==
    LET database == _extract_value(proc_content, L_DATABASE)
        schema == _extract_value(proc_content, L_SCHEMA)
        name == _extract_value(proc_content, L_NAME)
        def_match == SearchDefinition(proc_content)
        definition == IF def_match.found THEN Strip(def_match.group) ELSE <<>>
        full_name == FullName(database, schema, name)
    IN  IF database # <<>> /\ schema # <<>> /\ name # <<>> /\ definition # <<>>
        THEN Accept(full_name, full_name, definition)
        ELSE Skip

\* sproc_compare.py, the body of the loop of parse_stored_procedures: the
\* test is on the matches, not on the values.
ParseBlockSproc(block) ==
    LET database == SearchLine(block, L_DATABASE, {"\n", "\r"})
        schema == SearchLine(block, L_SCHEMA, {"\n", "\r"})
        name == SearchLine(block, L_NAME, {"\n", "\r"})
        definition == SearchDefinition(block)
        proc_name == FullName(Strip(database.group), Strip(schema.group),
                              Strip(name.group))
    IN  IF database.found /\ schema.found /\ name.found /\ definition.found
        THEN Accept(proc_name, proc_name, Strip(definition.group))
        ELSE Skip

\* fixed_compare.py, the body of the loop of parse_procedures_from_file.
ParseBlockFixed(match) ==
    LET db_match == SearchLine(match, L_DATABASE, {"\n"})
        schema_match == SearchLine(match, L_SCHEMA, {"\n"})
        name_match == SearchLine(match, L_NAME, {"\n"})
        def_match == SearchDefinition(match)
        key == FullName(Strip(db_match.group), Strip(schema_match.group),
                        Strip(name_match.group))
    IN  IF db_match.found /\ schema_match.found /\ name_match.found /\ def_match.found
        THEN Accept(key, key, Strip(def_match.group))
        ELSE Skip

\* compare_storeprocs_latest.py, the body of the loop of
\* parse_stored_procedures, for a section that has its end marker.
ParseSectionLatest(proc_section) ==
    LET database_match == SearchWord(proc_section, L_DATABASE)
        schema_match == SearchWord(proc_section, L_SCHEMA)
        name_match == SearchWord(proc_section, L_NAME)
        def_start == IndexFrom(proc_section, DEF_START, 1)
        def_end == IndexFrom(proc_section, DEF_END, 1)
        definition == Strip(SubSeq(proc_section, def_start + 1, def_end - 1))
        full_name == FullName(database_match.group, schema_match.group,
                              name_match.group)
    IN  IF /\ database_match.found /\ schema_match.found /\ name_match.found
           /\ def_start # 0 /\ def_end # 0
        THEN Accept(Lower(full_name), full_name, definition)
        ELSE Skip

\* A store that keeps the entry a key already has.
Store_FirstWins(procs, r) ==
    [k \in (DOMAIN procs) \cup {r.key} |->
        IF k \in DOMAIN procs
        THEN procs[k]
        ELSE [full_name |-> r.full_name, definition |-> r.definition]]

\* procedures[key] = value: a later block with the same key replaces the
\* earlier entry.
Store(procs, r) ==
    [k \in (DOMAIN procs) \cup {r.key} |->
        IF k = r.key
        THEN [full_name |-> r.full_name, definition |-> r.definition]
        ELSE procs[k]]

\* A greedy match: from the first start marker to the last end marker.
NextMatch_Greedy(txt, from) ==
    LET a == IndexFrom(txt, PROC_START, from)
        ends == { e \in (a + 1)..Len(txt) : txt[e] = PROC_END }
        e == IF ends = {} THEN 0 ELSE CHOOSE x \in ends : \A y \in ends : y <= x
    IN  IF a = 0 \/ e = 0
        THEN [found |-> FALSE, group |-> <<>>, end |-> from]
        ELSE [found |-> TRUE, group |-> SubSeq(txt, a + 1, e - 1), end |-> e + 1]

\* The next "=== STORED PROCEDURE START ===(.*?)=== STORED PROCEDURE END ==="
\* match of re.finditer at or after pos: the first start marker and the
\* nearest end marker after it.
NextMatch(txt, from) ==
    LET a == IndexFrom(txt, PROC_START, from)
        e == IndexFrom(txt, PROC_END, a + 1)
    IN  IF a = 0 \/ e = 0
        THEN [found |-> FALSE, group |-> <<>>, end |-> from]
        ELSE [found |-> TRUE, group |-> SubSeq(txt, a + 1, e - 1), end |-> e + 1]

\* The next element of content.split('=== STORED PROCEDURE START ===')[1:]
\* at or after pos: the text from a start marker to the next start marker.
NextPart(txt, from) ==
    LET a == IndexFrom(txt, PROC_START, from)
        b == IndexFrom(txt, PROC_START, a + 1)
        last == IF b = 0 THEN Len(txt) ELSE b - 1
    IN  IF a = 0
        THEN [found |-> FALSE, part |-> <<>>, end |-> from]
        ELSE [found |-> TRUE, part |-> SubSeq(txt, a + 1, last), end |-> last + 1]

\* part.split('=== STORED PROCEDURE END ===')[0]
BeforeEnd(part) == SubSeq(part, 1, IndexFrom(part, PROC_END, 1) - 1)

\* content.split('\n')
RECURSIVE SplitLinesLF(_)
SplitLinesLF(txt) ==
    LET e == IndexFrom(txt, "\n", 1)
    IN  IF e = 0 THEN <<txt>>
        ELSE <<SubSeq(txt, 1, e - 1)>> \o SplitLinesLF(From(txt, e + 1))

\* line.replace(label, '')
RECURSIVE Without(_, _)
Without(line, label) ==
    IF line = <<>> THEN <<>>
    ELSE IF Head(line) = label THEN Without(Tail(line), label)
    ELSE <<Head(line)>> \o Without(Tail(line), label)

\* '\n'.join(current_def)
RECURSIVE JoinLines(_)
JoinLines(lines) ==
    IF lines = <<>> THEN <<>>
    ELSE IF Len(lines) = 1 THEN lines[1]
    ELSE lines[1] \o <<"\n">> \o JoinLines(Tail(lines))

StartsWith(line, label) == line # <<>> /\ line[1] = label

\* find_missing.py, the body of the loop of get_procedure_names: the first
\* line that starts with the Name label gives the name, the last lines that
\* start with the other labels give database and schema; the name is added
\* when the three are non-empty.  (The set of names is kept as a mapping
\* whose entries have no definition.)
RECURSIVE LastValue(_, _)
LastValue(lines, label) ==
    IF lines = <<>> THEN <<>>
    ELSE IF StartsWith(Strip(lines[Len(lines)]), label)
         THEN Strip(Without(lines[Len(lines)], label))
         ELSE LastValue(SubSeq(lines, 1, Len(lines) - 1), label)

ParseNamesBlock(block) ==
    LET lines == SplitLinesLF(block)
        named == { i \in 1..Len(lines) : StartsWith(Strip(lines[i]), L_NAME) }
        first == CHOOSE i \in named : \A j \in named : i <= j
        name == Strip(Without(lines[first], L_NAME))
        db == LastValue(lines, L_DATABASE)
        schema == LastValue(lines, L_SCHEMA)
        full_name == FullName(db, schema, name)
    IN  IF named # {} /\ db # <<>> /\ schema # <<>> /\ name # <<>>
        THEN Accept(full_name, full_name, <<>>)
        ELSE Skip

\* current_proc[field] = value, on a dict
SetField(d, field, value) ==
    [f \in (DOMAIN d) \cup {field} |-> IF f = field THEN value ELSE d[f]]

\* current_proc.get(field, 'Unknown')
GetField(d, field) == IF field \in DOMAIN d THEN d[field] ELSE <<"Unknown">>

NoneProc == [is_none |-> TRUE, d |-> <<>>]
DictProc(d) == [is_none |-> FALSE, d |-> d]

\* simple_compare.py, extract_procedures: the state before the first line.
SimpleStart ==
    [procedures |-> <<>>, current_proc |-> NoneProc, current_def |-> <<>>,
     in_definition |-> FALSE, crashed |-> FALSE]

\* A metadata line: current_proc[field] = line.replace(label, '').strip().
\* Outside a block current_proc is None and the assignment raises TypeError.
SimpleField(st, line, label, field) ==
    IF st.current_proc.is_none
    THEN [st EXCEPT !.crashed = TRUE]
    ELSE [st EXCEPT !.current_proc =
            DictProc(SetField(st.current_proc.d, field, Strip(Without(line, label))))]

\* The end-of-procedure line.
SimpleEnd(st) ==
    LET d == st.current_proc.d
        full_name == FullName(GetField(d, "database"), GetField(d, "schema"),
                              GetField(d, "name"))
        stored == IF ~st.current_proc.is_none /\ "name" \in DOMAIN d
                  THEN Store(st.procedures,
                             Accept(full_name, full_name, JoinLines(st.current_def)))
                  ELSE st.procedures
    IN  [st EXCEPT !.procedures = stored, !.current_proc = NoneProc,
                   !.current_def = <<>>]

\* simple_compare.py, extract_procedures: the body of the loop over the
\* lines, for one raw line.
SimpleLine(st, raw) ==
    LET line == Strip(raw)
    IN  IF line = <<PROC_START>>
        THEN [st EXCEPT !.current_proc = DictProc(<<>>), !.current_def = <<>>,
                        !.in_definition = FALSE]
        ELSE IF StartsWith(line, L_DATABASE) THEN SimpleField(st, line, L_DATABASE, "database")
        ELSE IF StartsWith(line, L_SCHEMA) THEN SimpleField(st, line, L_SCHEMA, "schema")
        ELSE IF StartsWith(line, L_NAME) THEN SimpleField(st, line, L_NAME, "name")
        ELSE IF line = <<DEF_START>> THEN [st EXCEPT !.in_definition = TRUE]
        ELSE IF line = <<DEF_END>> THEN [st EXCEPT !.in_definition = FALSE]
        ELSE IF line = <<PROC_END>> THEN SimpleEnd(st)
        ELSE IF st.in_definition
             THEN [st EXCEPT !.current_def = Append(st.current_def, line)]
        ELSE st

(***************************************************************************)
(* Text-mode splitting and the line diff.                                  *)
(***************************************************************************)
\* str.splitlines(): lines end at "\n", "\r", "\r\n" or a form feed; no
\* empty last line.
RECURSIVE splitlines(_)
splitlines(s) ==
    LET e == RunEnd(s, 1, {"\n", "\r", "\f"})
        next == IF e < Len(s) /\ s[e] = "\r" /\ s[e + 1] = "\n" THEN e + 2 ELSE e + 1
    IN  IF s = <<>> THEN <<>>
        ELSE <<SubSeq(s, 1, e - 1)>> \o splitlines(From(s, next))

\* Length of the longest common prefix of a and b.
RECURSIVE CommonPrefix(_, _)
CommonPrefix(a, b) ==
    IF a = <<>> \/ b = <<>> \/ Head(a) # Head(b) THEN 0
    ELSE 1 + CommonPrefix(Tail(a), Tail(b))

Reverse(a) == [i \in 1..Len(a) |-> a[Len(a) + 1 - i]]

\* list(difflib.unified_diff(a, b, fromfile, tofile, lineterm='')): empty
\* when the line sequences are equal; otherwise the two header lines, a hunk
\* header and the changed region (context lines are left out of the model).
unified_diff(a, b, fromfile, tofile) ==
    LET pre == CommonPrefix(a, b)
        ra == From(a, pre + 1)
        rb == From(b, pre + 1)
        suf == CommonPrefix(Reverse(ra), Reverse(rb))
        del == SubSeq(ra, 1, Len(ra) - suf)
        ins == SubSeq(rb, 1, Len(rb) - suf)
    IN  IF a = b THEN <<>>
        ELSE << <<"---", fromfile>>, <<"+++", tofile>>, <<"@@", pre>> >>
             \o [i \in 1..Len(del) |-> <<"-", del[i]>>]
             \o [i \in 1..Len(ins) |-> <<"+", ins[i]>>]

\* hashlib.md5(x.encode()).hexdigest(): equal digests for equal texts;
\* distinct texts of the model get distinct digests.
md5(x) == [digest_of |-> x]

\* StoredProcedure.get_definition_hash
get_definition_hash(definition) == md5(get_normalized_definition(definition))

(***************************************************************************)
(* The comparison.                                                         *)
(***************************************************************************)
NoDiff == <<"<names only>">>

\* A comparison of the definitions as they were exported.
Differs_Raw(v, sdef, tdef) == sdef # tdef

\* A comparison that does not see semicolons.
Differs_SemicolonBlind(v, sdef, tdef) ==
    LET NoSemicolon(t) == SelectSeq(t, LAMBDA c : c # ";")
    IN  normalize_for_comparison(NoSemicolon(sdef)) # normalize_for_comparison(NoSemicolon(tdef))

\* The test that puts a common key into the changed bucket.
Differs(v, sdef, tdef) ==
    CASE v = "csp" -> get_definition_hash(sdef) # get_definition_hash(tdef)
      [] v = "sproc" -> normalize_for_comparison(sdef) # normalize_for_comparison(tdef)
      [] v = "latest" -> normalize_for_comparison(sdef) # normalize_for_comparison(tdef)
      [] v = "simple" -> normalize_sql(sdef) # normalize_sql(tdef)
      [] v = "fixed" -> normalized_def(sdef) # normalized_def(tdef)

\* What is recorded for a changed key: the line diff of the raw definitions
\* in compare_stored_procedures.py and sproc_compare.py, the name alone in
\* the other programs.
DiffOf(v, sdef, tdef) ==
    IF v \in {"csp", "sproc"}
    THEN unified_diff(splitlines(sdef), splitlines(tdef), "Source", "Target")
    ELSE NoDiff

\* The source keys without the removal of the target keys.
OnlyInSource_AllKeys(sprocs, tprocs) == DOMAIN sprocs

OnlyInSource(sprocs, tprocs) == (DOMAIN sprocs) \ (DOMAIN tprocs)
OnlyInTarget(sprocs, tprocs) == (DOMAIN tprocs) \ (DOMAIN sprocs)

\* A changed bucket that also takes the source keys the target lacks.
DifferentProcs_AllSource(v, sprocs, tprocs) ==
    LET changed == { k \in DOMAIN sprocs :
                        IF k \in DOMAIN tprocs
                        THEN Differs(v, sprocs[k].definition, tprocs[k].definition)
                        ELSE TRUE }
    IN  [k \in changed |-> NoDiff]

DifferentProcs(v, sprocs, tprocs) ==
    LET common_procs == (DOMAIN sprocs) \cap (DOMAIN tprocs)
        changed == { k \in common_procs :
                        Differs(v, sprocs[k].definition, tprocs[k].definition) }
    IN  [k \in changed |-> DiffOf(v, sprocs[k].definition, tprocs[k].definition)]

(***************************************************************************)
(* The report files.  A file is a sequence of lines; a line is kept as the *)
(* tuple of its kind and its values, a JSON document as a record.          *)
(***************************************************************************)
\* ord(c), for the characters of the names of the model.
CodePoint(c) ==
    CASE c = " " -> 32 [] c = "-" -> 45 [] c = "." -> 46
      [] c = "A" -> 65 [] c = "B" -> 66 [] c = "D" -> 68 [] c = "P" -> 80
      [] c = "Q" -> 81 [] c = "a" -> 97 [] c = "b" -> 98 [] c = "d" -> 100
      [] c = "p" -> 112 [] c = "q" -> 113
      [] OTHER -> 127

\* a < b for Python strings: by the first character that differs, a proper
\* prefix first.
RECURSIVE Before(_, _)
Before(a, b) ==
    IF b = <<>> THEN FALSE
    ELSE IF a = <<>> THEN TRUE
    ELSE IF Head(a) = Head(b) THEN Before(Tail(a), Tail(b))
    ELSE CodePoint(Head(a)) < CodePoint(Head(b))

\* A sort that keeps the reverse order.
RECURSIVE sorted_Descending(_)
sorted_Descending(S) ==
    IF S = {} THEN <<>>
    ELSE LET m == CHOOSE x \in S : \A y \in S : ~Before(x, y)
         IN  <<m>> \o sorted_Descending(S \ {m})

\* sorted(S), of a set (or the keys of a dict, or a list without repeats).
RECURSIVE sorted(_)
sorted(S) ==
    IF S = {} THEN <<>>
    ELSE LET m == CHOOSE x \in S : \A y \in S : ~Before(y, x)
         IN  <<m>> \o sorted(S \ {m})

\* datetime.now().strftime("%Y%m%d_%H%M%S"): the clock cut to whole seconds.
TicksPerSecond == 2
Stamp(t) == t \div TicksPerSecond

\* The five count lines every summary has.
CountLines(sprocs, tprocs, ois, oit, changed) ==
    << <<"count", "source_total", Cardinality(DOMAIN sprocs)>>,
       <<"count", "target_total", Cardinality(DOMAIN tprocs)>>,
       <<"count", "only_in_source", Cardinality(ois)>>,
       <<"count", "only_in_target", Cardinality(oit)>>,
       <<"count", "different", Cardinality(changed)>> >>

\* The name written for a key: compare_storeprocs_latest.py writes the
\* full_name kept in the mapping, the other programs write the key.
DisplayName(v, procs, k) == IF v = "latest" THEN procs[k].full_name ELSE k

\* One section of a summary: its title line and one line per key, in the
\* order of sorted(keys); fixed_compare.py writes a "None" line for an empty
\* bucket, the other programs write nothing.
SectionLines(v, section, keys, procs) ==
    LET order == sorted(keys)
    IN  IF keys = {}
        THEN IF v = "fixed" THEN << <<"none", section>> >> ELSE <<>>
        ELSE << <<"header", section>> >>
             \o [i \in 1..Len(order) |-> <<"entry", section, DisplayName(v, procs, order[i])>>]

\* A verdict that is never the all-match line.
ActionLines_NoVerdict(v, ois, oit, changed) ==
    IF v # "fixed" THEN <<>>
    ELSE (IF ois # {} THEN << <<"action", "deploy", Cardinality(ois)>> >> ELSE <<>>)
         \o (IF oit # {} THEN << <<"action", "review_extra", Cardinality(oit)>> >> ELSE <<>>)
         \o (IF changed # {} THEN << <<"action", "review_changed", Cardinality(changed)>> >> ELSE <<>>)

\* The ACTION REQUIRED lines of fixed_compare.py.
ActionLines(v, ois, oit, changed) ==
    IF v # "fixed" THEN <<>>
    ELSE (IF ois # {} THEN << <<"action", "deploy", Cardinality(ois)>> >> ELSE <<>>)
         \o (IF oit # {} THEN << <<"action", "review_extra", Cardinality(oit)>> >> ELSE <<>>)
         \o (IF changed # {} THEN << <<"action", "review_changed", Cardinality(changed)>> >> ELSE <<>>)
         \o (IF ois = {} /\ oit = {} /\ changed = {}
             THEN << <<"verdict", "all_match">> >> ELSE <<>>)

SummaryLines(v, sprocs, tprocs, ois, oit, changed) ==
    CountLines(sprocs, tprocs, ois, oit, changed)
        \o SectionLines(v, "only_in_source", ois, sprocs)
        \o SectionLines(v, "only_in_target", oit, tprocs)
        \o SectionLines(v, "different", changed, sprocs)
        \o ActionLines(v, ois, oit, changed)

\* The detail file: per changed key, in the order of sorted(keys), its name
\* and the unified diff (compare_stored_procedures.py, sproc_compare.py) or
\* the two versions (the other programs).
DetailLines(v, sprocs, tprocs, diffs) ==
    LET order == sorted(DOMAIN diffs)
    IN  [i \in 1..Len(order) |->
            <<"procedure", DisplayName(v, sprocs, order[i]),
              IF v \in {"csp", "sproc"} THEN diffs[order[i]]
              ELSE <<sprocs[order[i]].definition, tprocs[order[i]].definition>> >>]

\* A results dict whose summary counts the wrong bucket.
JsonResults_Miscounted(t, sprocs, tprocs, ois, oit, diffs) ==
    [timestamp |-> t,
     summary |-> [source_total |-> Cardinality(DOMAIN sprocs),
                  target_total |-> Cardinality(DOMAIN tprocs),
                  only_in_source |-> Cardinality(oit),
                  only_in_target |-> Cardinality(ois),
                  different |-> Cardinality(DOMAIN diffs)],
     only_in_source |-> sorted(ois),
     only_in_target |-> sorted(oit),
     different |-> sorted(DOMAIN diffs)]

\* The `results` dict that compare_stored_procedures.py dumps as JSON.
JsonResults(t, sprocs, tprocs, ois, oit, diffs) ==
    [timestamp |-> t,
     summary |-> [source_total |-> Cardinality(DOMAIN sprocs),
                  target_total |-> Cardinality(DOMAIN tprocs),
                  only_in_source |-> Cardinality(ois),
                  only_in_target |-> Cardinality(oit),
                  different |-> Cardinality(DOMAIN diffs)],
     only_in_source |-> sorted(ois),
     only_in_target |-> sorted(oit),
     different |-> sorted(DOMAIN diffs)]

SummaryName(v) ==
    IF v \in {"latest", "simple"} THEN "comparison_report_" ELSE "comparison_summary_"

DetailName(v) ==
    IF v \in {"csp", "fixed"} THEN "detailed_differences_" ELSE "code_differences_"

JsonName == "comparison_results_"

FileName(name, stamp) == [name |-> name, stamp |-> stamp]

\* The files one report generation writes: name -> content.
ReportFiles(v, t, sprocs, tprocs, ois, oit, diffs) ==
    LET summary == FileName(SummaryName(v), Stamp(t))
        detail == FileName(DetailName(v), Stamp(t))
        json == FileName(JsonName, Stamp(t))
        names == {summary} \cup (IF diffs # <<>> THEN {detail} ELSE {})
                     \cup (IF v = "csp" THEN {json} ELSE {})
    IN  [f \in names |->
            IF f = summary THEN SummaryLines(v, sprocs, tprocs, ois, oit, DOMAIN diffs)
            ELSE IF f = detail THEN DetailLines(v, sprocs, tprocs, diffs)
            ELSE JsonResults(t, sprocs, tprocs, ois, oit, diffs)]

\* open(name, 'w') and the writes, by run r: a file of that name is replaced.
Written(dir, files, r) ==
    [f \in (DOMAIN dir) \cup (DOMAIN files) |->
        IF f \in DOMAIN files THEN [run |-> r, content |-> files[f]] ELSE dir[f]]

(***************************************************************************)
(* Export files.  An export is written from a sequence of blocks; a block  *)
(* may lack a metadata line, carry a label with nothing after it, lack its *)
(* definition or the end marker of its definition.                         *)
(***************************************************************************)
Given(v) == [has |-> TRUE, val |-> v]
Missing == [has |-> FALSE, val |-> <<>>]
Blank == [has |-> TRUE, val |-> <<>>]

Body(b) == [kind |-> "full", body |-> b]
NoBody == [kind |-> "absent", body |-> <<>>]
Unterminated(b) == [kind |-> "unterminated", body |-> b]

\* A block as the export tool writes it: the metadata lines, then the
\* definition, and nothing around the block.
Block(db, schema, name, def) ==
    [db |-> db, schema |-> schema, name |-> name, def |-> def,
     order |-> "fields_first", before |-> <<>>, after |-> <<>>, end |-> TRUE]

\* The same block with its lines in another order, or with text before its
\* start marker and after its end marker.
Reorder(b, order) == [b EXCEPT !.order = order]
Around(b, before, after) == [b EXCEPT !.before = before, !.after = after]

\* The same block without its end marker.
Unclosed(b) == [b EXCEPT !.end = FALSE]

Orders == {"fields_first", "definition_first", "name_first", "definition_inside"}

FieldLine(label, f) ==
    IF ~f.has THEN <<>>
    ELSE <<label>> \o (IF f.val = <<>> THEN <<>> ELSE <<" ">> \o f.val) \o <<"\n">>

DefText(d) ==
    CASE d.kind = "absent" -> <<>>
      [] d.kind = "full" -> <<DEF_START, "\n">> \o d.body \o <<"\n", DEF_END, "\n">>
      [] d.kind = "unterminated" -> <<DEF_START, "\n">> \o d.body \o <<"\n">>

InnerText(b) ==
    LET D == FieldLine(L_DATABASE, b.db)
        S == FieldLine(L_SCHEMA, b.schema)
        N == FieldLine(L_NAME, b.name)
        F == DefText(b.def)
    IN  CASE b.order = "fields_first" -> D \o S \o N \o F
          [] b.order = "definition_first" -> F \o D \o S \o N
          [] b.order = "name_first" -> N \o S \o D \o F
          [] b.order = "definition_inside" -> N \o F \o S \o D

BlockText(b) ==
    b.before \o <<PROC_START, "\n">> \o InnerText(b)
        \o (IF b.end THEN <<PROC_END, "\n">> ELSE <<>>) \o b.after

RECURSIVE FileText(_)
FileText(blocks) ==
    IF blocks = <<>> THEN <<>> ELSE BlockText(Head(blocks)) \o FileText(Tail(blocks))

RECURSIVE BlockSeqs(_, _)
BlockSeqs(B, n) ==
    IF n = 0 THEN { <<>> }
    ELSE LET S == BlockSeqs(B, n - 1) IN S \cup { Append(q, b) : q \in S, b \in B }

WellFormed(b) ==
    /\ b.db.has /\ b.db.val # <<>>
    /\ b.schema.has /\ b.schema.val # <<>>
    /\ b.name.has /\ b.name.val # <<>>
    /\ b.def.kind = "full" /\ Strip(b.def.body) # <<>>

Proc(db, schema, name, body) == Block(Given(db), Given(schema), Given(name), Body(body))

\* Blocks of the exports that are compared: keys that are equal, equal up
\* to letter case, or different; definitions that are identical, equal up
\* to letter case, equal up to a comment, or different by a space and a
\* semicolon.
CompareBlocks ==
    { Proc(<<"D">>, <<"b">>, <<"P">>, <<"a", " ", "B">>),
      Proc(<<"D">>, <<"b">>, <<"P">>, <<"a", " ", " ", "B", ";">>),
      Proc(<<"D">>, <<"b">>, <<"P">>, <<"a", " ", "B", " ", "-", "-", "a">>),
      Proc(<<"d">>, <<"B">>, <<"p">>, <<"A", " ", "B">>),
      Proc(<<"D">>, <<"b">>, <<"Q">>, <<"a", " ", "B">>) }

\* Blocks of the exports that are parsed: well-formed ones (two of them
\* with the same name, one with that name in another case) and malformed
\* ones.
ParseBlocks ==
    { Proc(<<"D">>, <<"b">>, <<"P">>, <<"a">>),
      Proc(<<"D">>, <<"b">>, <<"P">>, <<"B", ";">>),
      Proc(<<"d">>, <<"B">>, <<"p">>, <<"a", "\n", " ", "a">>),
      Proc(<<"D">>, <<"b">>, <<"Q">>, <<"a">>),
      Block(Given(<<"D">>), Given(<<"b">>), Missing, Body(<<"B">>)),
      Block(Given(<<"D">>), Given(<<"b">>), Blank, Body(<<"B">>)),
      Block(Missing, Given(<<"b">>), Given(<<"P">>), Body(<<"B">>)),
      Block(Given(<<"D">>), Missing, Given(<<"P">>), Body(<<"B">>)),
      Block(Given(<<"D">>), Given(<<"b">>), Given(<<"P">>), NoBody),
      Block(Given(<<"D">>), Given(<<"b">>), Given(<<"P">>), Body(<<>>)),
      Block(Given(<<"D">>), Given(<<"b">>), Given(<<"P">>), Unterminated(<<"B">>)) }

PipeIdle ==
    /\ source_blocks = <<>>
    /\ target_blocks = <<>>
    /\ source_file = <<>>
    /\ target_file = <<>>
    /\ side = "none"
    /\ content = <<>>
    /\ pos = 0
    /\ procedures = <<>>
    /\ current_proc = NoneProc
    /\ current_def = <<>>
    /\ in_definition = FALSE
    /\ source_procs = <<>>
    /\ target_procs = <<>>
    /\ only_in_source = {}
    /\ only_in_target = {}
    /\ different_procs = <<>>
    /\ source_path = "ok"
    /\ target_path = "ok"
    /\ now = 0
    /\ run = 1
    /\ out_dir = <<>>
    /\ exit_status = NotSet
    /\ console = <<>>

(***************************************************************************)
(* Normalizer runs.  A run is given a definition text; the environment may *)
(* derive a second definition from it that differs only in comments, in    *)
(* whitespace runs or in letter case (the export artifacts the normalizer  *)
(* is meant to hide); the program then normalizes both, and normalizes     *)
(* its own result again.                                                   *)
(***************************************************************************)
Pieces ==
    { <<"a">>, <<"B">>, <<" ">>, <<"\n">>, <<"-">>, <<"/">>, <<"*">>, <<";">>,
      <<"-", "-">>, <<"/", "*">>, <<"*", "/">>, <<"/", "*", "*", "/">> }

RECURSIVE TextsOf(_)
TextsOf(n) ==
    IF n = 0 THEN { <<>> }
    ELSE LET T == TextsOf(n - 1) IN T \cup { t \o p : t \in T, p \in Pieces }

Texts == TextsOf(MaxPieces)

\* A comment marker occurs in t.
HasMarker(t) ==
    \E i \in 1..(Len(t) - 1) :
        <<t[i], t[i + 1]>> \in { <<"-", "-">>, <<"/", "*">>, <<"*", "/">> }

\* t with u inserted after its first i characters.
Insert(t, i, u) == SubSeq(t, 1, i) \o u \o From(t, i + 1)

\* Comment texts: of a line comment, and of a block comment (which may hold
\* a line-comment marker or span lines).
LineNotes == { <<>>, <<" ", "a">>, <<"/", "*">> }
BlockNotes == { <<>>, <<"a">>, <<"-", "-">>, <<"\n">> }

NormIdle ==
    /\ text = <<>>
    /\ other = <<>>
    /\ edit = "none"
    /\ nText = NotSet
    /\ nOther = NotSet
    /\ nnText = NotSet

NormInit ==
    /\ variant \in NormVariants
    /\ pc = "input"
    /\ text \in Texts
    /\ other = text
    /\ edit = "none"
    /\ nText = NotSet
    /\ nOther = NotSet
    /\ nnText = NotSet
    /\ PipeIdle

Editable == pc = "input" /\ edit = "none" /\ ~HasMarker(text)

\* A line comment is added at the end of a line of the definition.
AddLineComment ==
    /\ Editable
    /\ \E i \in 0..Len(text), note \in LineNotes :
          /\ IF i = Len(text) THEN TRUE ELSE text[i + 1] = "\n"
          /\ other' = Insert(text, i, <<" ", "-", "-">> \o note)
    /\ edit' = "line_comment"
    /\ UNCHANGED <<variant, pc, text, nText, nOther, nnText, pipeVars>>

\* A block comment is added between two characters of the definition.
AddBlockComment ==
    /\ Editable
    /\ \E i \in 0..Len(text), note \in BlockNotes :
          other' = Insert(text, i, <<"/", "*">> \o note \o <<"*", "/">>)
    /\ edit' = "block_comment"
    /\ UNCHANGED <<variant, pc, text, nText, nOther, nnText, pipeVars>>

\* A whitespace run is lengthened, or indentation is added at either end.
ChangeWhitespace ==
    /\ Editable
    /\ \E i \in 0..Len(text), w \in { " ", "\n" } :
          /\ IF i = 0 \/ i = Len(text) THEN TRUE ELSE IsSpace(text[i])
          /\ other' = Insert(text, i, <<w>>)
    /\ edit' = "whitespace"
    /\ UNCHANGED <<variant, pc, text, nText, nOther, nnText, pipeVars>>

\* The case of one letter is changed.
ChangeCase ==
    /\ Editable
    /\ \E i \in 1..Len(text) :
          /\ LowerChar(text[i]) # UpperChar(text[i])
          /\ other' = [text EXCEPT ![i] =
                          IF text[i] = LowerChar(text[i])
                          THEN UpperChar(text[i]) ELSE LowerChar(text[i])]
    /\ edit' = "case"
    /\ UNCHANGED <<variant, pc, text, nText, nOther, nnText, pipeVars>>

\* The definition is followed directly by a trailing line comment.
AppendTrailingComment ==
    /\ Editable
    /\ \E note \in LineNotes : other' = text \o <<"-", "-">> \o note
    /\ edit' = "trailing"
    /\ UNCHANGED <<variant, pc, text, nText, nOther, nnText, pipeVars>>

\* The program normalizes both definitions.
DoNormalize ==
    /\ pc = "input"
    /\ nText' = Normalize(variant, text)
    /\ nOther' = Normalize(variant, other)
    /\ pc' = "normalized"
    /\ UNCHANGED <<variant, text, other, edit, nnText, pipeVars>>

\* The program normalizes its own result.
DoRenormalize ==
    /\ pc = "normalized"
    /\ edit = "none"
    /\ nnText' = Normalize(variant, nText)
    /\ pc' = "renormalized"
    /\ UNCHANGED <<variant, text, other, edit, nText, nOther, pipeVars>>

NormNext ==
    \/ AddLineComment
    \/ AddBlockComment
    \/ ChangeWhitespace
    \/ ChangeCase
    \/ AppendTrailingComment
    \/ DoNormalize
    \/ DoRenormalize

SpecNorm == NormInit /\ [][NormNext]_vars

(***************************************************************************)
(* A comparison run: the source export is parsed, then the target export,  *)
(* then the two mappings are compared.                                     *)
(***************************************************************************)
Variants == {"csp", "sproc", "latest", "simple", "fixed"}

PipeInit(Programs, Pairs) ==
    /\ variant \in Programs
    /\ pc = "start"
    /\ NormIdle
    /\ \E pair \in Pairs : source_blocks = pair[1] /\ target_blocks = pair[2]
    /\ source_file = FileText(source_blocks)
    /\ target_file = FileText(target_blocks)
    /\ side = "source"
    /\ content = <<>>
    /\ pos = 0
    /\ procedures = <<>>
    /\ current_proc = NoneProc
    /\ current_def = <<>>
    /\ in_definition = FALSE
    /\ source_procs = <<>>
    /\ target_procs = <<>>
    /\ only_in_source = {}
    /\ only_in_target = {}
    /\ different_procs = <<>>
    /\ source_path = "ok"
    /\ target_path = "ok"
    /\ now = 0
    /\ run = 1
    /\ out_dir = <<>>
    /\ exit_status = NotSet
    /\ console = <<>>

\* The export of the current side is opened and read; the parser's locals
\* are set up.
ReadFile ==
    /\ pc = "start"
    /\ LET f == IF side = "source"
                THEN Open(variant, source_path, source_file)
                ELSE Open(variant, target_path, target_file)
       IN  /\ content' = f.text
           /\ pc' = IF f.outcome = "raise" THEN "crashed" ELSE "parsing"
           /\ exit_status' = IF f.outcome = "raise" THEN 1 ELSE exit_status
           /\ console' = IF f.outcome = "text" THEN console
                         ELSE Append(console,
                                     [stream |-> IF f.outcome = "raise" THEN "stderr"
                                                 ELSE "stdout",
                                      error |-> f.error])
    /\ pos' = 1
    /\ procedures' = <<>>
    /\ current_proc' = NoneProc
    /\ current_def' = <<>>
    /\ in_definition' = FALSE
    /\ UNCHANGED <<variant, normVars, inputVars, side, mapVars, resultVars, outVars>>

ParseBlockOf(v, block) ==
    CASE v = "csp" -> ParseBlockCsp(block)
      [] v = "sproc" -> ParseBlockSproc(block)
      [] v = "fixed" -> ParseBlockFixed(block)

\* One iteration of `for match in matches` (compare_stored_procedures.py,
\* sproc_compare.py, fixed_compare.py).
ParseBlock ==
    /\ pc = "parsing"
    /\ variant \in {"csp", "sproc", "fixed"}
    /\ LET match == NextMatch(content, pos)
           r == ParseBlockOf(variant, match.group)
       IN  /\ match.found
           /\ procedures' = IF r.accept THEN Store(procedures, r) ELSE procedures
           /\ pos' = match.end
    /\ UNCHANGED <<variant, pc, normVars, inputVars, side, content, current_proc,
                   current_def, in_definition, mapVars, resultVars, outVars, exitVars>>

\* One iteration of `for part in parts[1:]` (compare_storeprocs_latest.py):
\* a part without the end marker is passed over.
ParsePart ==
    /\ pc = "parsing"
    /\ variant = "latest"
    /\ LET next == NextPart(content, pos)
           r == ParseSectionLatest(BeforeEnd(next.part))
       IN  /\ next.found
           /\ procedures' = IF IndexFrom(next.part, PROC_END, 1) # 0 /\ r.accept
                            THEN Store(procedures, r) ELSE procedures
           /\ pos' = next.end
    /\ UNCHANGED <<variant, pc, normVars, inputVars, side, content, current_proc,
                   current_def, in_definition, mapVars, resultVars, outVars, exitVars>>

\* One iteration of `for line in content.split('\n')` (simple_compare.py);
\* an exception ends the process.
ParseLine ==
    /\ pc = "parsing"
    /\ variant = "simple"
    /\ pos <= Len(SplitLinesLF(content))
    /\ LET st == [procedures |-> procedures, current_proc |-> current_proc,
                  current_def |-> current_def, in_definition |-> in_definition,
                  crashed |-> FALSE]
           after == SimpleLine(st, SplitLinesLF(content)[pos])
       IN  /\ procedures' = after.procedures
           /\ current_proc' = after.current_proc
           /\ current_def' = after.current_def
           /\ in_definition' = after.in_definition
           /\ pc' = IF after.crashed THEN "crashed" ELSE "parsing"
           /\ exit_status' = IF after.crashed THEN 1 ELSE exit_status
           /\ console' = IF after.crashed
                         THEN Append(console, [stream |-> "stderr", error |-> "TypeError"])
                         ELSE console
    /\ pos' = pos + 1
    /\ UNCHANGED <<variant, normVars, inputVars, side, content, mapVars, resultVars, outVars>>

\* One iteration of `for block in blocks[1:]` (find_missing.py).
ParseNames ==
    /\ pc = "parsing"
    /\ variant = "missing"
    /\ LET next == NextPart(content, pos)
           r == ParseNamesBlock(next.part)
       IN  /\ next.found
           /\ procedures' = IF r.accept THEN Store(procedures, r) ELSE procedures
           /\ pos' = next.end
    /\ UNCHANGED <<variant, pc, normVars, inputVars, side, content, current_proc,
                   current_def, in_definition, mapVars, resultVars, outVars, exitVars>>

LoopDone ==
    CASE variant \in {"csp", "sproc", "fixed"} -> ~NextMatch(content, pos).found
      [] variant \in {"latest", "missing"} -> ~NextPart(content, pos).found
      [] variant = "simple" -> pos > Len(SplitLinesLF(content))

\* `return procedures`: the caller keeps the mapping; the parser's locals
\* go out of scope.
ParseReturn ==
    /\ pc = "parsing"
    /\ LoopDone
    /\ IF side = "source"
       THEN /\ source_procs' = procedures
            /\ side' = "target"
            /\ pc' = "start"
            /\ UNCHANGED target_procs
       ELSE /\ target_procs' = procedures
            /\ pc' = "parsed"
            /\ UNCHANGED <<source_procs, side>>
    /\ content' = <<>>
    /\ pos' = 0
    /\ procedures' = <<>>
    /\ current_proc' = NoneProc
    /\ current_def' = <<>>
    /\ in_definition' = FALSE
    /\ UNCHANGED <<variant, normVars, inputVars, resultVars, outVars, exitVars>>

\* The set differences and the changed bucket (get_comparison_results,
\* compare_procedures, compare_files, main).
Compare ==
    /\ pc = "parsed"
    /\ variant # "missing"
    /\ only_in_source' = OnlyInSource(source_procs, target_procs)
    /\ only_in_target' = OnlyInTarget(source_procs, target_procs)
    /\ different_procs' = DifferentProcs(variant, source_procs, target_procs)
    /\ pc' = "compared"
    /\ UNCHANGED <<variant, normVars, inputVars, side, loopVars, mapVars, outVars, exitVars>>

\* The report files are written (generate_report, the second half of
\* compare_procedures and of main); the program ends.
GenerateReport ==
    /\ pc = "compared"
    /\ variant # "missing"
    /\ out_dir' = Written(out_dir,
                          ReportFiles(variant, now, source_procs, target_procs,
                                      only_in_source, only_in_target, different_procs),
                          run)
    /\ pc' = "reported"
    /\ exit_status' = 0
    /\ UNCHANGED <<variant, normVars, inputVars, side, loopVars, mapVars, resultVars,
                   now, run, console>>

\* The comparison runs of the programs whose parser works block by block.
Init ==
    PipeInit(Variants \ {"simple"},
             BlockSeqs(CompareBlocks, MaxBlocks) \X BlockSeqs(CompareBlocks, MaxBlocks))

Next ==
    \/ ReadFile
    \/ ParseBlock
    \/ ParsePart
    \/ ParseReturn
    \/ Compare
    \/ GenerateReport

Spec == Init /\ [][Next]_vars

\* Parsing alone, by every program: one export, of blocks that may be
\* malformed.
ParseInit == PipeInit(Variants, BlockSeqs(ParseBlocks, MaxParseBlocks) \X { <<>> })

ParseNext ==
    \/ ReadFile
    \/ ParseBlock
    \/ ParsePart
    \/ ParseLine
    \/ ParseReturn

SpecParse == ParseInit /\ [][ParseNext]_vars

(***************************************************************************)
(* Layouts.  The source export is written as the export tool writes it;    *)
(* the target export holds the same blocks with the lines of each block    *)
(* in another order, or with text outside the blocks: before the first     *)
(* start marker, between two blocks, after the last end marker.  One of    *)
(* the definitions has a line that begins with a label.                    *)
(***************************************************************************)
LayoutBlocks ==
    { Proc(<<"D">>, <<"b">>, <<"P">>, <<"a", " ", "B">>),
      Proc(<<"D">>, <<"b">>, <<"Q">>, <<"a", "\n", L_NAME, " ", "B">>) }

\* Lines outside a block: none, a line of text, a line that begins with a
\* label.
StrayLines == { <<>>, <<"a", "\n">>, <<L_NAME, " ", "B", "\n">> }

\* target holds the blocks of source, each in some order of its lines.
Reordered(source, target) ==
    /\ Len(target) = Len(source)
    /\ \A i \in 1..Len(source) : \E o \in Orders : target[i] = Reorder(source[i], o)

\* target holds the blocks of source, with lines before a block and after
\* the last one.
Padded(source, target) ==
    /\ Len(target) = Len(source)
    /\ \A i \in 1..Len(source) :
           \E before \in StrayLines, after \in StrayLines :
               /\ target[i] = Around(source[i], before, after)
               /\ i < Len(source) => after = <<>>

LayoutPairs ==
    LET S == BlockSeqs(LayoutBlocks, MaxParseBlocks)
        T == BlockSeqs({ Reorder(b, o) : b \in LayoutBlocks, o \in Orders }
                           \cup { Around(b, before, after) :
                                      b \in LayoutBlocks, before \in StrayLines,
                                      after \in StrayLines },
                       MaxParseBlocks)
    IN  { pair \in S \X T : Reordered(pair[1], pair[2]) \/ Padded(pair[1], pair[2]) }

LayoutInit == PipeInit(Variants, LayoutPairs)

SpecLayout == LayoutInit /\ [][ParseNext]_vars

(***************************************************************************)
(* Metadata lines.  One export is parsed whose blocks have a name of two   *)
(* words, a Name label with nothing after it, or a definition with a line  *)
(* that begins with the Name label after the metadata lines.               *)
(***************************************************************************)
FieldBlocks ==
    { Proc(<<"D">>, <<"b">>, <<"P">>, <<"a">>),
      Proc(<<"D">>, <<"b">>, <<"P", " ", "Q">>, <<"a">>),
      Block(Given(<<"D">>), Given(<<"b">>), Blank, Body(<<"a">>)),
      Proc(<<"D">>, <<"b">>, <<"Q">>, <<"a", "\n", L_NAME, " ", "B">>) }

FieldInit == PipeInit(Variants, BlockSeqs(FieldBlocks, MaxParseBlocks) \X { <<>> })

SpecFields == FieldInit /\ [][ParseNext]_vars

(***************************************************************************)
(* Line diffs.  The two programs that record a line diff compare exports   *)
(* of one procedure whose definition has a line comment, followed by a     *)
(* line feed or by a form feed (which text-mode reading leaves in place).  *)
(***************************************************************************)
DiffBlocks ==
    { Proc(<<"D">>, <<"b">>, <<"P">>, <<"a", " ", "-", "-", "a", "\n", "B">>),
      Proc(<<"D">>, <<"b">>, <<"P">>, <<"a", " ", "-", "-", "a", "\f", "B">>),
      Proc(<<"D">>, <<"b">>, <<"P">>, <<"a", "\n", "B">>),
      Proc(<<"D">>, <<"b">>, <<"P">>, <<"a">>) }

DiffInit ==
    PipeInit({"csp", "sproc"},
             BlockSeqs(DiffBlocks, MaxBlocks) \X BlockSeqs(DiffBlocks, MaxBlocks))

DiffNext ==
    \/ ReadFile
    \/ ParseBlock
    \/ ParseReturn
    \/ Compare

SpecDiff == DiffInit /\ [][DiffNext]_vars

(***************************************************************************)
(* End markers.  One export is parsed in which a block may lack its end    *)
(* marker.                                                                 *)
(***************************************************************************)
EndBlocks ==
    LET P == Proc(<<"D">>, <<"b">>, <<"P">>, <<"a">>)
        Q == Proc(<<"D">>, <<"b">>, <<"Q">>, <<"B">>)
    IN  { P, Q, Unclosed(P), Unclosed(Q) }

EndInit == PipeInit(Variants, BlockSeqs(EndBlocks, MaxParseBlocks) \X { <<>> })

SpecEnd == EndInit /\ [][ParseNext]_vars

(***************************************************************************)
(* Whole runs: a program is started on two paths, again and again, and     *)
(* writes into the same output directory.  A path may lead to nothing, or  *)
(* to something that cannot be read (a directory, a file without read      *)
(* permission); a file may hold a byte that is not valid UTF-8.  The clock *)
(* advances between two runs, by less than a second or by more.            *)
(***************************************************************************)
Programs == Variants \cup {"missing"}

RunFiles ==
    LET X == Proc(<<"D">>, <<"b">>, <<"P">>, <<"a", " ", "B">>)
        Y == Proc(<<"D">>, <<"b">>, <<"P">>, <<"a", " ", " ", "B", ";">>)
    IN  { [path |-> "absent", blocks |-> <<>>],
          [path |-> "unreadable", blocks |-> <<>>],
          [path |-> "ok", blocks |-> <<>>],
          [path |-> "ok", blocks |-> <<X>>],
          [path |-> "ok", blocks |-> <<Y>>],
          [path |-> "ok", blocks |-> <<Around(X, <<>>, <<BAD_BYTE, "\n">>)>>] }

\* The state of a process that has just been started on two paths.
Started(src, tgt) ==
    /\ pc' = "main"
    /\ source_blocks' = src.blocks
    /\ target_blocks' = tgt.blocks
    /\ source_file' = FileText(src.blocks)
    /\ target_file' = FileText(tgt.blocks)
    /\ source_path' = src.path
    /\ target_path' = tgt.path
    /\ side' = "source"
    /\ content' = <<>>
    /\ pos' = 0
    /\ procedures' = <<>>
    /\ current_proc' = NoneProc
    /\ current_def' = <<>>
    /\ in_definition' = FALSE
    /\ source_procs' = <<>>
    /\ target_procs' = <<>>
    /\ only_in_source' = {}
    /\ only_in_target' = {}
    /\ different_procs' = <<>>
    /\ exit_status' = NotSet
    /\ console' = <<>>

RunInit ==
    /\ variant \in Programs
    /\ pc = "main"
    /\ NormIdle
    /\ \E src \in RunFiles, tgt \in RunFiles :
           /\ source_blocks = src.blocks
           /\ target_blocks = tgt.blocks
           /\ source_path = src.path
           /\ target_path = tgt.path
    /\ source_file = FileText(source_blocks)
    /\ target_file = FileText(target_blocks)
    /\ side = "source"
    /\ content = <<>>
    /\ pos = 0
    /\ procedures = <<>>
    /\ current_proc = NoneProc
    /\ current_def = <<>>
    /\ in_definition = FALSE
    /\ source_procs = <<>>
    /\ target_procs = <<>>
    /\ only_in_source = {}
    /\ only_in_target = {}
    /\ different_procs = <<>>
    /\ now = 0
    /\ run = 1
    /\ out_dir = <<>>
    /\ exit_status = NotSet
    /\ console = <<>>

\* The exit status of a program that has found a path missing: main of
\* compare_stored_procedures.py returns, the others call sys.exit(1).
NotFoundStatus(v) == IF v = "csp" THEN 0 ELSE 1

\* The os.path.exists tests of main, source first (the path of something
\* unreadable exists).  fixed_compare.py and find_missing.py have none.
CheckPaths ==
    /\ pc = "main"
    /\ LET absent == IF source_path = "absent" THEN "Source file not found"
                     ELSE IF target_path = "absent" THEN "Target file not found"
                     ELSE "none"
       IN  IF variant \in {"csp", "sproc", "latest", "simple"} /\ absent # "none"
           THEN /\ console' = Append(console, [stream |-> "stdout", error |-> absent])
                /\ exit_status' = NotFoundStatus(variant)
                /\ pc' = "exited"
           ELSE /\ pc' = "start"
                /\ UNCHANGED exitVars
    /\ UNCHANGED <<variant, normVars, inputVars, side, loopVars, mapVars, resultVars,
                   outVars>>

NoStamp == -1
MissingName == "MISSING_PROCEDURES.txt"

\* The lines of MISSING_PROCEDURES.txt.
MissingLines(missing) ==
    LET order == sorted(missing)
    IN  << <<"count", "missing", Cardinality(missing)>> >>
        \o (IF missing # {}
            THEN [i \in 1..Len(order) |-> <<"entry", "only_in_source", order[i]>>]
            ELSE << <<"verdict", "none_missing">> >>)

\* find_missing.py after the two parses: the two set differences, and the
\* file of the missing names; the program ends.
FindMissing ==
    /\ pc = "parsed"
    /\ variant = "missing"
    /\ only_in_source' = OnlyInSource(source_procs, target_procs)
    /\ only_in_target' = OnlyInTarget(source_procs, target_procs)
    /\ out_dir' = Written(out_dir,
                          [f \in {FileName(MissingName, NoStamp)} |->
                              MissingLines(OnlyInSource(source_procs, target_procs))],
                          run)
    /\ pc' = "reported"
    /\ exit_status' = 0
    /\ UNCHANGED <<variant, normVars, inputVars, side, loopVars, mapVars,
                   different_procs, now, run, console>>

Ended == pc \in {"reported", "crashed", "exited"}

\* The program is started again, on paths of the user's choice, after some
\* time.
NextRun ==
    /\ Ended
    /\ run < MaxRuns
    /\ \E src \in RunFiles, tgt \in RunFiles : Started(src, tgt)
    /\ \E d \in 1..TicksPerSecond : now' = now + d
    /\ run' = run + 1
    /\ UNCHANGED <<variant, normVars, out_dir>>

RunNext ==
    \/ CheckPaths
    \/ ReadFile
    \/ ParseBlock
    \/ ParsePart
    \/ ParseLine
    \/ ParseNames
    \/ ParseReturn
    \/ Compare
    \/ GenerateReport
    \/ FindMissing
    \/ NextRun

SpecRun == RunInit /\ [][RunNext]_vars

(***************************************************************************)
(* The Python file comparer (PythonFileComparer).  Python texts are        *)
(* sequences of characters; a file is readable or not; a comparer object   *)
(* keeps its two dicts from call to call.  Of the data kept per file the   *)
(* model has the fields that the buckets and the diff are made of.         *)
(***************************************************************************)
QUOTE == "\""
APOSTROPHE == "'"
BACKSLASH == "\\"
HASH == "#"

\* sub in line
Contains(line, sub) ==
    \E i \in 1..(Len(line) - Len(sub) + 1) : SubSeq(line, i, i + Len(sub) - 1) = sub

TripleDouble == <<QUOTE, QUOTE, QUOTE>>
TripleSingle == <<APOSTROPHE, APOSTROPHE, APOSTROPHE>>
NoChar == <<>>

\* The loop `for i, char in enumerate(line)` of normalize_code from index i
\* (counted from 1): the position of the first '#' outside a string,
\* counted from 0, or -1.
RECURSIVE CommentPos(_, _, _, _)
CommentPos(line, i, in_string, string_char) ==
    IF i > Len(line) THEN -1
    ELSE IF line[i] \in {QUOTE, APOSTROPHE} /\ (i = 1 \/ line[i - 1] # BACKSLASH)
         THEN IF ~in_string THEN CommentPos(line, i + 1, TRUE, line[i])
              ELSE IF line[i] = string_char
                   THEN CommentPos(line, i + 1, FALSE, string_char)
              ELSE CommentPos(line, i + 1, in_string, string_char)
    ELSE IF line[i] = HASH /\ ~in_string THEN i - 1
    ELSE CommentPos(line, i + 1, in_string, string_char)

\* The docstring test at the head of the loop body of normalize_code.
DocstringAfter(st, line) ==
    IF Contains(line, TripleDouble) \/ Contains(line, TripleSingle)
    THEN IF ~st.in_docstring
         THEN [st EXCEPT !.in_docstring = TRUE,
                         !.docstring_char = IF Contains(line, TripleDouble)
                                            THEN TripleDouble ELSE TripleSingle]
         ELSE IF Contains(line, st.docstring_char)
              THEN [st EXCEPT !.in_docstring = FALSE, !.docstring_char = NoChar]
         ELSE st
    ELSE st

\* One iteration of `for line in lines` of normalize_code.
NormalizeLine(st, line) ==
    LET st1 == DocstringAfter(st, line)
        comment_pos == CommentPos(line, 1, FALSE, NoChar)
        line1 == IF ~st1.in_docstring /\ Contains(line, <<HASH>>) /\ comment_pos >= 0
                 THEN RStrip(SubSeq(line, 1, comment_pos))
                 ELSE line
        line2 == RStrip(line1)
    IN  [st1 EXCEPT !.normalized_lines =
            IF line2 # <<>> \/ st1.in_docstring THEN Append(@, line2) ELSE @]

RECURSIVE NormalizeLines(_, _)
NormalizeLines(st, lines) ==
    IF lines = <<>> THEN st
    ELSE NormalizeLines(NormalizeLine(st, Head(lines)), Tail(lines))

\* PythonFileComparer.normalize_code
normalize_code(code) ==
    JoinLines(NormalizeLines([in_docstring |-> FALSE, docstring_char |-> NoChar,
                              normalized_lines |-> <<>>],
                             SplitLinesLF(code)).normalized_lines)

\* PythonFileComparer.get_file_hash
get_file_hash(code) == md5(normalize_code(code))

\* A file: readable with its content, or one that open() or the decoding
\* fails on.
PyFile(code) == [readable |-> TRUE, content |-> code]
NoFile == [readable |-> FALSE, content |-> <<>>]

NoneData == [none |-> TRUE]

\* line.startswith(prefix)
StartsWithText(line, prefix) ==
    Len(line) >= Len(prefix) /\ SubSeq(line, 1, Len(prefix)) = prefix

\* \w of the regular expressions, over the characters of the model.
WordChar(c) ==
    c \notin {" ", "\n", "\r", "\t", "\f", "(", ")", ":", ".", "-", "/", "*", ";",
              HASH, QUOTE, APOSTROPHE, BACKSLASH}

\* Index of the first character of s at or after i that is not a word
\* character, or Len(s)+1.
RECURSIVE WordEnd(_, _)
WordEnd(s, i) ==
    IF i > Len(s) \/ ~WordChar(s[i]) THEN i ELSE WordEnd(s, i + 1)

\* re.match(keyword + r'\s+(\w+)\s*' + closer, line): the name, for a line
\* that begins with the keyword.
Declared(line, keyword, closers) ==
    LET a == SkipSpace(line, Len(keyword) + 1)
        e == WordEnd(line, a)
        c == SkipSpace(line, e)
    IN  IF /\ StartsWithText(line, keyword)
           /\ a > Len(keyword) + 1
           /\ e > a
           /\ c <= Len(line)
           /\ line[c] \in closers
        THEN Match(SubSeq(line, a, e - 1))
        ELSE NoMatch

ImportPrefix == <<"i", "m", "p", "o", "r", "t", " ">>
FromPrefix == <<"f", "r", "o", "m", " ">>
DefKeyword == <<"d", "e", "f">>
ClassKeyword == <<"c", "l", "a", "s", "s">>

\* The loop `for line in lines` of read_python_file: the import lines, the
\* names of the functions and of the classes.
RECURSIVE Structure(_, _)
Structure(st, lines) ==
    IF lines = <<>> THEN st
    ELSE LET line == Head(lines)
             function == Declared(line, DefKeyword, {"("})
             class == Declared(line, ClassKeyword, {"(", ":"})
             after ==
                 IF StartsWithText(Strip(line), ImportPrefix) \/ StartsWithText(Strip(line), FromPrefix)
                 THEN [st EXCEPT !.imports = Append(@, Strip(line))]
                 ELSE IF StartsWithText(Strip(line), DefKeyword \o <<" ">>)
                 THEN IF function.found
                      THEN [st EXCEPT !.functions = Append(@, function.group)] ELSE st
                 ELSE IF StartsWithText(Strip(line), ClassKeyword \o <<" ">>)
                 THEN IF class.found
                      THEN [st EXCEPT !.classes = Append(@, class.group)] ELSE st
                 ELSE st
         IN  Structure(after, Tail(lines))

\* PythonFileComparer.read_python_file: the file data, or None after an
\* exception.
read_python_file(file) ==
    IF ~file.readable THEN NoneData
    ELSE [none |-> FALSE,
          content |-> ReadText(file.content),
          normalized_content |-> normalize_code(ReadText(file.content)),
          hash |-> get_file_hash(ReadText(file.content)),
          imports |-> Structure([imports |-> <<>>, functions |-> <<>>, classes |-> <<>>],
                                SplitLinesLF(ReadText(file.content))).imports,
          functions |-> Structure([imports |-> <<>>, functions |-> <<>>, classes |-> <<>>],
                                  SplitLinesLF(ReadText(file.content))).functions,
          classes |-> Structure([imports |-> <<>>, functions |-> <<>>, classes |-> <<>>],
                                SplitLinesLF(ReadText(file.content))).classes,
          lines |-> Len(SplitLinesLF(ReadText(file.content))),
          size |-> Len(ReadText(file.content))]

\* d[k] = v
Put(d, k, v) == [x \in (DOMAIN d) \cup {k} |-> IF x = k THEN v ELSE d[x]]

\* A loop body that stores the source data whatever became of the target.
StorePair_SourceAlways(files, source_name, source_data, target_data) ==
    IF source_data # NoneData
    THEN [source_files |-> Put(files.source_files, source_name, source_data),
          target_files |-> IF target_data # NoneData
                           THEN Put(files.target_files, source_name, target_data)
                           ELSE files.target_files]
    ELSE files

\* `if source_data and target_data:` and the two assignments of
\* compare_specific_files.
StorePair(files, source_name, source_data, target_data) ==
    IF source_data # NoneData /\ target_data # NoneData
    THEN [source_files |-> Put(files.source_files, source_name, source_data),
          target_files |-> Put(files.target_files, source_name, target_data)]
    ELSE files

\* PythonFileComparer.compare_specific_files on the dicts `files`.
RECURSIVE compare_specific_files(_, _)
compare_specific_files(files, file_pairs) ==
    IF file_pairs = <<>> THEN files
    ELSE compare_specific_files(
             StorePair(files, Head(file_pairs).source_name,
                       read_python_file(Head(file_pairs).source),
                       read_python_file(Head(file_pairs).target)),
             Tail(file_pairs))

\* One of the two loops of compare_directories: the readable files of the
\* directory are stored under their names.
RECURSIVE LoadDirectory(_, _)
LoadDirectory(d, dir) ==
    IF DOMAIN dir = {} THEN d
    ELSE LET filename == CHOOSE n \in DOMAIN dir : TRUE
             file_data == read_python_file(dir[filename])
             rest == [n \in (DOMAIN dir) \ {filename} |-> dir[n]]
         IN  LoadDirectory(IF file_data # NoneData THEN Put(d, filename, file_data) ELSE d,
                           rest)

\* PythonFileComparer.compare_directories on the dicts `files`.
compare_directories(files, source_dir, target_dir) ==
    [source_files |-> LoadDirectory(files.source_files, source_dir),
     target_files |-> LoadDirectory(files.target_files, target_dir)]

\* PythonFileComparer.get_comparison_results
get_comparison_results(source_files, target_files) ==
    LET source_names == DOMAIN source_files
        target_names == DOMAIN target_files
        common_files == source_names \cap target_names
        changed == { f \in common_files : source_files[f].hash # target_files[f].hash }
    IN  [only_in_source |-> source_names \ target_names,
         only_in_target |-> target_names \ source_names,
         different_files |->
             [f \in changed |->
                 [diff |-> unified_diff(splitlines(source_files[f].content),
                                        splitlines(target_files[f].content),
                                        <<"Source/", f>>, <<"Target/", f>>),
                  source_lines |-> source_files[f].lines,
                  target_lines |-> target_files[f].lines,
                  imports_changed |-> source_files[f].imports # target_files[f].imports,
                  functions_changed |-> source_files[f].functions # target_files[f].functions,
                  classes_changed |-> source_files[f].classes # target_files[f].classes,
                  size_difference |-> target_files[f].size - source_files[f].size]]]

PySummaryName == "python_comparison_summary_"
PyDetailName == "python_detailed_differences_"
PyJsonName == "python_comparison_results_"

\* The lines of the summary file of the Python file comparer: the counts,
\* the two lists of names, and per different file its name, its line
\* counts, its size difference and the warnings.
PySummaryLines(source_files, target_files, r) ==
    LET order == sorted(DOMAIN r.different_files)
        Warnings(c) ==
            (IF c.imports_changed THEN <<"imports">> ELSE <<>>)
                \o (IF c.functions_changed THEN <<"functions">> ELSE <<>>)
                \o (IF c.classes_changed THEN <<"classes">> ELSE <<>>)
    IN  CountLines(source_files, target_files, r.only_in_source, r.only_in_target,
                   DOMAIN r.different_files)
            \o SectionLines("pycmp", "only_in_source", r.only_in_source, source_files)
            \o SectionLines("pycmp", "only_in_target", r.only_in_target, target_files)
            \o (IF DOMAIN r.different_files = {} THEN <<>>
                ELSE << <<"header", "different">> >>
                     \o [i \in 1..Len(order) |->
                            <<"entry", "different", order[i],
                              r.different_files[order[i]].source_lines,
                              r.different_files[order[i]].target_lines,
                              r.different_files[order[i]].size_difference,
                              Warnings(r.different_files[order[i]])>>])

\* The lines of the detail file: per different file, in the order of
\* sorted(names), its name and its diff.
PyDetailLines(r) ==
    LET order == sorted(DOMAIN r.different_files)
    IN  [i \in 1..Len(order) |-> <<"file", order[i], r.different_files[order[i]].diff>>]

\* The `results` dict that the Python file comparer dumps as JSON.
PyJsonResults(t, source_files, target_files, r) ==
    [timestamp |-> t,
     summary |-> [source_total |-> Cardinality(DOMAIN source_files),
                  target_total |-> Cardinality(DOMAIN target_files),
                  only_in_source |-> Cardinality(r.only_in_source),
                  only_in_target |-> Cardinality(r.only_in_target),
                  different |-> Cardinality(DOMAIN r.different_files)],
     only_in_source |-> sorted(r.only_in_source),
     only_in_target |-> sorted(r.only_in_target),
     different |-> sorted(DOMAIN r.different_files),
     file_details |->
         [f \in DOMAIN r.different_files |->
             [imports_changed |-> r.different_files[f].imports_changed,
              functions_changed |-> r.different_files[f].functions_changed,
              classes_changed |-> r.different_files[f].classes_changed,
              size_difference |-> r.different_files[f].size_difference]]]

\* The files one report generation of the Python file comparer writes.
PyReportFiles(t, source_files, target_files) ==
    LET r == get_comparison_results(source_files, target_files)
        summary == FileName(PySummaryName, Stamp(t))
        detail == FileName(PyDetailName, Stamp(t))
        json == FileName(PyJsonName, Stamp(t))
        names == {summary, json} \cup (IF DOMAIN r.different_files # {} THEN {detail} ELSE {})
    IN  [f \in names |->
            IF f = summary THEN PySummaryLines(source_files, target_files, r)
            ELSE IF f = detail THEN PyDetailLines(r)
            ELSE PyJsonResults(t, source_files, target_files, r)]

(***************************************************************************)
(* Calls on one comparer object.  The texts: code, code after a one-line   *)
(* docstring, code after a docstring of three lines, and each of them with *)
(* a comment after the code; every text ends outside a docstring.          *)
(***************************************************************************)

(***************************************************************************)
(* Calls on a Python file comparer.  The files are a line of code, alone,  *)
(* after a docstring on one line and after a docstring on three lines,     *)
(* each with and without a comment after the code.                         *)
(***************************************************************************)
Comment == <<" ", HASH, "b">>

PyBase ==
    { <<"a">>,
      TripleDouble \o <<"b">> \o TripleDouble \o <<"\n", "a">>,
      TripleDouble \o <<"\n", "b", "\n">> \o TripleDouble \o <<"\n", "a">> }

PyTexts == PyBase \cup { t \o Comment : t \in PyBase } \cup { <<"b">> }

PyNames == { <<"a">>, <<"b">> }

Pair(source_name, source, target) ==
    [source_name |-> source_name, source |-> source, target |-> target]

PairsCall(file_pairs) ==
    [mode |-> "pairs", file_pairs |-> file_pairs, source_dir |-> <<>>, target_dir |-> <<>>]

DirsCall(source_dir, target_dir) ==
    [mode |-> "dirs", file_pairs |-> <<>>, source_dir |-> source_dir,
     target_dir |-> target_dir]

\* A directory with one file.
Dir(name, file) == [n \in {name} |-> file]

PyCalls ==
    { PairsCall(<<Pair(<<"a">>, PyFile(t), PyFile(t \o Comment))>>) : t \in PyBase }
    \cup { PairsCall(<<Pair(<<"b">>, PyFile(t), PyFile(t))>>) : t \in PyBase }
    \cup { PairsCall(<<Pair(<<"a">>, PyFile(<<"a">>), PyFile(<<"b">>))>>),
           PairsCall(<<Pair(<<"a">>, PyFile(<<"a">>), NoFile)>>),
           PairsCall(<<Pair(<<"b">>, NoFile, PyFile(<<"a">>))>>),
           PairsCall(<<Pair(<<"a">>, PyFile(<<"a">>), PyFile(<<"b">>)),
                       Pair(<<"b">>, PyFile(<<"a">>), NoFile)>>),
           DirsCall(Dir(<<"a">>, PyFile(<<"a">>)), Dir(<<"b">>, PyFile(<<"a">>))),
           DirsCall(Dir(<<"b">>, PyFile(<<"b">>)), Dir(<<"b">>, PyFile(<<"a">>))),
           DirsCall(Dir(<<"a">>, NoFile), <<>>),
           PairsCall(<<Pair(<<"b">>,
                            PyFile(ImportPrefix \o <<"a", "\n">> \o DefKeyword \o <<" ", "a", "(", ")", ":">>),
                            PyFile(ImportPrefix \o <<"b", "\n">> \o ClassKeyword \o <<" ", "a", ":">>))>>) }

\* The dicts after a call on the dicts `files`.
Called(files, call) ==
    IF call.mode = "pairs" THEN compare_specific_files(files, call.file_pairs)
    ELSE compare_directories(files, call.source_dir, call.target_dir)

NewComparer == [source_files |-> <<>>, target_files |-> <<>>]

\* PythonFileComparer(): a comparer with two empty dicts.  source_procs and
\* target_procs hold self.source_files and self.target_files, source_blocks
\* the arguments of the last call, side which calls were made, run their
\* number.
PyInit ==
    /\ variant = "pycmp"
    /\ pc = "new"
    /\ NormIdle
    /\ source_blocks = <<>>
    /\ target_blocks = <<>>
    /\ source_file = <<>>
    /\ target_file = <<>>
    /\ source_path = "ok"
    /\ target_path = "ok"
    /\ side = "none"
    /\ content = <<>>
    /\ pos = 0
    /\ procedures = <<>>
    /\ current_proc = NoneProc
    /\ current_def = <<>>
    /\ in_definition = FALSE
    /\ source_procs = <<>>
    /\ target_procs = <<>>
    /\ only_in_source = {}
    /\ only_in_target = {}
    /\ different_procs = <<>>
    /\ now \in 0..1
    /\ run = 0
    /\ out_dir = <<>>
    /\ exit_status = NotSet
    /\ console = <<>>

\* The comparer after a call: its two dicts are updated in place.
AfterCall(call) ==
    /\ LET files == Called([source_files |-> source_procs,
                            target_files |-> target_procs], call)
       IN  /\ source_procs' = files.source_files
           /\ target_procs' = files.target_files
    /\ source_blocks' = call
    /\ side' = IF call.mode = "pairs" /\ side \in {"none", "pairs"} THEN "pairs" ELSE "mixed"
    /\ run' = run + 1
    /\ pc' = "loaded"
    /\ UNCHANGED <<variant, normVars, target_blocks, source_file, target_file, source_path,
                   target_path, loopVars, resultVars, now, out_dir, exitVars>>

\* A call of compare_specific_files.
CompareSpecificFiles ==
    /\ variant = "pycmp"
    /\ run < MaxRuns
    /\ \E call \in PyCalls : call.mode = "pairs" /\ AfterCall(call)

\* A call of compare_directories.
CompareDirectories ==
    /\ variant = "pycmp"
    /\ run < MaxRuns
    /\ \E call \in PyCalls : call.mode = "dirs" /\ AfterCall(call)

\* A call of get_comparison_results.
GetComparisonResults ==
    /\ variant = "pycmp"
    /\ pc = "loaded"
    /\ LET r == get_comparison_results(source_procs, target_procs)
       IN  /\ only_in_source' = r.only_in_source
           /\ only_in_target' = r.only_in_target
           /\ different_procs' = r.different_files
    /\ pc' = "compared"
    /\ UNCHANGED <<variant, normVars, inputVars, side, loopVars, mapVars, outVars, exitVars>>

\* A call of generate_report: it gets the comparison results itself and
\* writes the summary, the detail file if a file differs, and the JSON file.
PyGenerateReport ==
    /\ variant = "pycmp"
    /\ pc \in {"loaded", "compared"}
    /\ out_dir' = Written(out_dir, PyReportFiles(now, source_procs, target_procs), run)
    /\ pc' = "reported"
    /\ UNCHANGED <<variant, normVars, inputVars, side, loopVars, mapVars, resultVars,
                   now, run, exitVars>>

PyNext ==
    \/ CompareSpecificFiles
    \/ CompareDirectories
    \/ GetComparisonResults
    \/ PyGenerateReport

SpecPy == PyInit /\ [][PyNext]_vars

(***************************************************************************)
(* Properties of the normalizers (checked under SpecNorm).                 *)
(***************************************************************************)
StripsComments(v) == v \in {"csp", "sproc", "latest", "simple"}

\* C5: normalize is idempotent: normalizing a normalized text changes nothing.
C5_NormalizeIdempotent ==
    pc = "renormalized" => nnText = nText

\* C6: two definitions that differ only in comments, in whitespace runs or
\* in letter case normalize to the same text.
C6_ArtifactsIgnored ==
    (pc = "normalized" /\ edit \in {"line_comment", "block_comment", "whitespace", "case"})
        => nOther = nText

\* C7 as stated: for a text x without comment marker, normalize(x followed
\* by a trailing line comment) = normalize(lower-cased x).
C7_TrailingComment ==
    (pc = "normalized" /\ edit = "trailing" /\ StripsComments(variant))
        => nOther = Normalize(variant, Lower(text))

\* C7 as amended: the same, for a text x that does not end in "-" (a final
\* "-" joins the "--" that follows it, and the comment starts one
\* character early).
C7_TrailingCommentAfterNonDash ==
    ( /\ pc = "normalized" /\ edit = "trailing" /\ StripsComments(variant)
      /\ (text = <<>> \/ text[Len(text)] # "-") )
        => nOther = Normalize(variant, Lower(text))

C7_Witness ==
    /\ pc = "normalized" /\ edit = "trailing" /\ variant = "csp"
    /\ text = <<"B", "\n", "a">>
    /\ other = <<"B", "\n", "a", "-", "-", " ", "a">>
    /\ nOther = <<"b", " ", "a">>

(***************************************************************************)
(* Properties of the comparison (checked under Spec).                      *)
(***************************************************************************)
Compared == pc = "compared"

SourceKeys == DOMAIN source_procs
TargetKeys == DOMAIN target_procs
ChangedKeys == DOMAIN different_procs

\* The common keys whose normalized definitions are equal.
UnchangedKeys ==
    { k \in SourceKeys \cap TargetKeys :
        Normalize(variant, source_procs[k].definition)
            = Normalize(variant, target_procs[k].definition) }

\* C1: the three buckets are pairwise disjoint, and with the common keys
\* whose normalized definitions are equal they make up exactly the keys of
\* the two mappings.
C1_BucketsPartition ==
    Compared =>
        /\ only_in_source \cap only_in_target = {}
        /\ only_in_source \cap ChangedKeys = {}
        /\ only_in_target \cap ChangedKeys = {}
        /\ UnchangedKeys \cap (only_in_source \cup only_in_target \cup ChangedKeys) = {}
        /\ only_in_source \cup only_in_target \cup ChangedKeys \cup UnchangedKeys
               = SourceKeys \cup TargetKeys

C1_Witness ==
    /\ Compared
    /\ only_in_source # {} /\ only_in_target # {} /\ ChangedKeys # {}

\* C2: onlyInSource is exactly the keys of the source mapping that the
\* target mapping lacks, and onlyInTarget exactly the keys of the target
\* mapping that the source mapping lacks.
C2_ExactDifferences ==
    Compared =>
        /\ \A k \in SourceKeys \cup TargetKeys :
               /\ k \in only_in_source <=> (k \in SourceKeys /\ k \notin TargetKeys)
               /\ k \in only_in_target <=> (k \in TargetKeys /\ k \notin SourceKeys)
        /\ only_in_source \subseteq SourceKeys
        /\ only_in_target \subseteq TargetKeys

C2_Witness ==
    /\ Compared
    /\ only_in_source # {} /\ only_in_target # {}
    /\ SourceKeys \cap TargetKeys # {}

\* C3: a key is in changed if and only if both mappings have it and the
\* normalized definitions differ; a key whose two definitions are identical
\* is never in changed.
C3_ChangedIffNormalizedDiffer ==
    Compared =>
        /\ ChangedKeys \subseteq SourceKeys \cap TargetKeys
        /\ \A k \in SourceKeys \cap TargetKeys :
               /\ k \in ChangedKeys <=>
                      Normalize(variant, source_procs[k].definition)
                          # Normalize(variant, target_procs[k].definition)
               /\ source_procs[k].definition = target_procs[k].definition
                      => k \notin ChangedKeys

C3_Witness ==
    /\ Compared
    /\ ChangedKeys # {}
    /\ \E k \in (SourceKeys \cap TargetKeys) \ ChangedKeys :
           source_procs[k].definition = target_procs[k].definition

\* C4: key matching is case-insensitive: the key of an entry is its display
\* name in lower case, and a source block and a target block whose names
\* differ only in letter case, with equal normalized bodies, leave the three
\* buckets empty.
C4_CaseInsensitiveKeys ==
    /\ (side = "target" \/ pc \in {"parsed", "compared"}) =>
           \A k \in SourceKeys : k = Lower(source_procs[k].full_name)
    /\ ( /\ Compared
         /\ Len(source_blocks) = 1 /\ Len(target_blocks) = 1
         /\ source_blocks[1].name.val # target_blocks[1].name.val
         /\ Lower(source_blocks[1].name.val) = Lower(target_blocks[1].name.val)
         /\ Normalize(variant, source_blocks[1].def.body)
                = Normalize(variant, target_blocks[1].def.body) )
        => (only_in_source = {} /\ only_in_target = {} /\ ChangedKeys = {})

(***************************************************************************)
(* Properties of the parsers (checked under SpecParse).                    *)
(***************************************************************************)
\* The export has been parsed and its mapping returned.
SourceParsed == side = "target"

\* The key a program gives a well-formed block.
KeyOf(v, b) ==
    LET full_name == FullName(b.db.val, b.schema.val, b.name.val)
    IN  IF v = "latest" THEN Lower(full_name) ELSE full_name

\* The definition a program keeps of a well-formed block: the text between
\* the definition markers without the surrounding whitespace; in
\* simple_compare.py each line is stripped.
RECURSIVE StripEach(_)
StripEach(lines) ==
    IF lines = <<>> THEN <<>> ELSE <<Strip(Head(lines))>> \o StripEach(Tail(lines))

KeptDefinition(v, body) ==
    IF v = "simple" THEN JoinLines(StripEach(SplitLinesLF(body))) ELSE Strip(body)

\* The entry of the last well-formed block of blocks with key k.
LastEntry(v, blocks, k) ==
    LET I == { i \in 1..Len(blocks) : WellFormed(blocks[i]) /\ KeyOf(v, blocks[i]) = k }
        last == CHOOSE i \in I : \A j \in I : j <= i
    IN  [full_name |-> FullName(blocks[last].db.val, blocks[last].schema.val,
                                blocks[last].name.val),
         definition |-> KeptDefinition(v, blocks[last].def.body)]

WellFormedKeys(v, blocks) ==
    { KeyOf(v, blocks[i]) : i \in { j \in 1..Len(blocks) : WellFormed(blocks[j]) } }

NameMissing(b) ==
    /\ b.db.has /\ b.db.val # <<>>
    /\ b.schema.has /\ b.schema.val # <<>>
    /\ ~b.name.has
    /\ b.def.kind = "full" /\ Strip(b.def.body) # <<>>

\* C8: a block enters the mapping only if it has a non-empty database,
\* schema, name and definition between both definition markers: every entry
\* is that of a well-formed block, and no entry has an empty definition.
C8_OnlyCompleteBlocksEnter ==
    SourceParsed =>
        \A k \in SourceKeys :
            /\ k \in WellFormedKeys(variant, source_blocks)
            /\ source_procs[k].definition # <<>>

\* C9: an export with a block without a Name line, followed by well-formed
\* blocks, is parsed to the end; the mapping has no entry for the block
\* without name and has every well-formed block under its own name.
C9_MissingNameSkipped ==
    ( /\ \A i \in 1..Len(source_blocks) :
             WellFormed(source_blocks[i]) \/ NameMissing(source_blocks[i])
      /\ \E i \in 1..Len(source_blocks) : NameMissing(source_blocks[i]) )
        => /\ pc # "crashed"
           /\ SourceParsed =>
                  /\ SourceKeys = WellFormedKeys(variant, source_blocks)
                  /\ \A k \in SourceKeys :
                         source_procs[k] = LastEntry(variant, source_blocks, k)

C9_Witness ==
    /\ SourceParsed
    /\ Len(source_blocks) = 2
    /\ NameMissing(source_blocks[1])
    /\ WellFormed(source_blocks[2])
    /\ SourceKeys = { KeyOf(variant, source_blocks[2]) }

\* C10: of several accepted blocks with the same key the mapping holds one
\* entry, with the definition and the display name of the last of them.
C10_LastWins ==
    ( /\ SourceParsed
      /\ \A i \in 1..Len(source_blocks) : WellFormed(source_blocks[i]) )
        => /\ SourceKeys = WellFormedKeys(variant, source_blocks)
           /\ \A k \in SourceKeys :
                  source_procs[k] = LastEntry(variant, source_blocks, k)

C10_Witness ==
    /\ SourceParsed
    /\ variant = "latest"
    /\ Len(source_blocks) = 2
    /\ WellFormed(source_blocks[1]) /\ WellFormed(source_blocks[2])
    /\ KeyOf(variant, source_blocks[1]) = KeyOf(variant, source_blocks[2])
    /\ source_blocks[1].name.val # source_blocks[2].name.val
    /\ Cardinality(SourceKeys) = 1
    /\ \A k \in SourceKeys :
           /\ source_procs[k].full_name = FullName(source_blocks[2].db.val,
                  source_blocks[2].schema.val, source_blocks[2].name.val)
           /\ source_procs[k].definition # Strip(source_blocks[1].def.body)

(***************************************************************************)
(* Scenarios of the comparison (checked under Spec).                       *)
(***************************************************************************)
\* A definition without its comments, as SQL reads it.
WithoutComments(t) == Strip(SubBlockComments(SubLineComments(t)))

\* t is s with one more space at a space of s and a semicolon at its end.
SpaceAndSemicolon(s, t) ==
    \E i \in 1..Len(s) : s[i] = " " /\ t = Insert(s, i, <<" ">>) \o <<";">>

\* Source holds the procedures A and B, target holds B and C, and the two
\* bodies of B differ only in comments.
CommentOnlyScenario ==
    /\ Len(source_blocks) = 2 /\ Len(target_blocks) = 2
    /\ KeyOf(variant, source_blocks[2]) = KeyOf(variant, target_blocks[1])
    /\ Cardinality({ KeyOf(variant, source_blocks[1]), KeyOf(variant, source_blocks[2]),
                     KeyOf(variant, target_blocks[2]) }) = 3
    /\ source_blocks[2].def.body # target_blocks[1].def.body
    /\ WithoutComments(source_blocks[2].def.body)
           = WithoutComments(target_blocks[1].def.body)

\* C11: with source procedures {A, B} and target procedures {B, C}, where
\* the two bodies of B differ only in comments, onlyInSource = {A},
\* onlyInTarget = {C} and changed is empty.
C11_CommentOnlyScenario ==
    (Compared /\ CommentOnlyScenario)
        => /\ only_in_source = { KeyOf(variant, source_blocks[1]) }
           /\ only_in_target = { KeyOf(variant, target_blocks[2]) }
           /\ ChangedKeys = {}

\* C12: semicolons are not stripped: a key whose target body is the source
\* body with an extra space and a trailing semicolon is in changed, and the
\* diff recorded for it is not empty.
C12_SemicolonKept ==
    Compared =>
        \A k \in SourceKeys \cap TargetKeys :
            SpaceAndSemicolon(source_procs[k].definition, target_procs[k].definition)
                => /\ k \in ChangedKeys
                   /\ Len(different_procs[k]) > 0

C12_Witness ==
    /\ Compared
    /\ variant = "csp"
    /\ \E k \in ChangedKeys :
           /\ SpaceAndSemicolon(source_procs[k].definition, target_procs[k].definition)
           /\ \E i \in 1..Len(different_procs[k]) :
                  different_procs[k][i] = <<"+", target_procs[k].definition>>

(***************************************************************************)
(* Properties of the reports (checked under Spec and SpecRun).             *)
(***************************************************************************)
Reported == pc = "reported"

\* The file of that name that this run has written, if it has.
RunFile(name) == FileName(name, Stamp(now))
RunWrote(name) ==
    /\ RunFile(name) \in DOMAIN out_dir
    /\ out_dir[RunFile(name)].run = run

\* C14: a completed report generation has written the summary file and the
\* JSON file, and has written the detail file if and only if changed is
\* not empty.
C14_FilesWritten ==
    Reported =>
        /\ RunWrote(SummaryName(variant))
        /\ RunWrote(JsonName)
        /\ RunWrote(DetailName(variant)) <=> ChangedKeys # {}

\* The names on the entry lines of a section, in the order of the lines.
EntryNames(lines, section) ==
    LET entries == SelectSeq(lines, LAMBDA l : l[1] = "entry" /\ l[2] = section)
    IN  [i \in 1..Len(entries) |-> entries[i][3]]

Ascending(names) == \A i \in 1..(Len(names) - 1) : Before(names[i], names[i + 1])

Sections == {"only_in_source", "only_in_target", "different"}

\* C16: in every list that is written (the sections of the summary, the
\* detail file, the name lists of the JSON file) the names appear in
\* ascending order of the name as it is written.
C16_ListsSorted ==
    Reported =>
        /\ \A section \in Sections :
               Ascending(EntryNames(out_dir[RunFile(SummaryName(variant))].content, section))
        /\ RunWrote(DetailName(variant)) =>
               LET detail == out_dir[RunFile(DetailName(variant))].content
               IN  Ascending([i \in 1..Len(detail) |-> detail[i][2]])
        /\ RunWrote(JsonName) =>
               LET json == out_dir[RunFile(JsonName)].content
               IN  /\ Ascending(json.only_in_source)
                   /\ Ascending(json.only_in_target)
                   /\ Ascending(json.different)

(***************************************************************************)
(* Properties of whole runs (checked under SpecRun).                       *)
(***************************************************************************)
\* The summary this run has written: the file of find_missing.py has no
\* timestamp in its name.
RunSummaryFile ==
    IF variant = "missing" THEN FileName(MissingName, NoStamp)
    ELSE RunFile(SummaryName(variant))

WroteNothing == \A f \in DOMAIN out_dir : out_dir[f].run # run

BothReadable == source_path = "ok" /\ target_path = "ok"

NoBlocks == BothReadable /\ source_blocks = <<>> /\ target_blocks = <<>>

Has(lines, kinds) == \E i \in 1..Len(lines) : lines[i][1] \in kinds

\* C13: after a run on two inputs without blocks the three buckets are
\* empty, and the report that was written gives zero for every count of
\* differences, lists no procedure, and carries the line that says that
\* all procedures match where the program has such a line
\* (fixed_compare.py, find_missing.py).
C13_EmptyInputsAllMatch ==
    (Reported /\ NoBlocks) =>
        /\ only_in_source = {}
        /\ only_in_target = {}
        /\ different_procs = <<>>
        /\ RunSummaryFile \in DOMAIN out_dir
        /\ out_dir[RunSummaryFile].run = run
        /\ LET lines == out_dir[RunSummaryFile].content
           IN  /\ \A i \in 1..Len(lines) : lines[i][1] = "count" => lines[i][3] = 0
               /\ ~Has(lines, {"header", "entry", "action"})
               /\ variant \in {"fixed", "missing"} => Has(lines, {"verdict"})

C13_Witness ==
    /\ Reported
    /\ NoBlocks
    /\ variant = "fixed"
    /\ Has(out_dir[RunSummaryFile].content, {"verdict"})

\* C15: no step replaces a report file with a timestamp in its name that
\* an earlier run has written.
C15_NoOverwrite ==
    [][\A f \in DOMAIN out_dir :
           f.stamp # NoStamp => (f \in DOMAIN out_dir' /\ out_dir'[f] = out_dir[f])]_vars

PathMissing == source_path = "absent" \/ target_path = "absent"

\* C17: a run on a path that does not exist ends with the error reported,
\* nothing parsed, no file written and an exit status other than zero.
C17_MissingPathAborts ==
    (Ended /\ PathMissing /\ variant \in {"csp", "sproc", "latest", "simple"}) =>
        /\ console # <<>>
        /\ content = <<>>
        /\ source_procs = <<>>
        /\ target_procs = <<>>
        /\ WroteNothing
        /\ exit_status # 0

\* An input that exists and that no attempt of the list of encodings of
\* the program turns into text.
Unreadable(v, path, bytes) == path # "absent" /\ Open(v, path, bytes).outcome # "text"

ReadFailed ==
    /\ ~PathMissing
    /\ \/ Unreadable(variant, source_path, source_file)
       \/ Unreadable(variant, target_path, target_file)

\* C18: a run with an input that cannot be read under any encoding of the
\* list ends without a comparison and without a report, with the error on
\* the console and an exit status other than zero.
C18_DecodeFailureAborts ==
    (Ended /\ ReadFailed) =>
        /\ ~Reported
        /\ WroteNothing
        /\ console # <<>>
        /\ exit_status # 0

(***************************************************************************)
(* Properties of layouts (checked under SpecLayout).                       *)
(***************************************************************************)
BothParsed == pc = "parsed"

\* C19: when the target export holds the blocks of the source export with
\* the metadata lines and the definition of each block in another order,
\* the two exports parse to the same mapping: the same keys with the same
\* definitions.
C19_OrderIndependent ==
    (BothParsed /\ Reordered(source_blocks, target_blocks)) =>
        target_procs = source_procs

\* C20: when the target export holds the blocks of the source export and
\* lines outside the blocks, parsing it raises no error and gives the
\* mapping of the source export.
C20_OutsideTextIgnored ==
    Padded(source_blocks, target_blocks) =>
        /\ pc # "crashed"
        /\ BothParsed => target_procs = source_procs

(***************************************************************************)
(* Further properties of the normalizers (checked under SpecNorm).         *)
(***************************************************************************)
\* The composition in the order that is specified: line comments, block
\* comments, whitespace, letter case.
ReferenceNormalize(t) == Lower(SplitJoin(SubBlockComments(SubLineComments(t))))

\* C21: the normalized text is the result of removing the line comments,
\* then the block comments, then collapsing and trimming the whitespace,
\* then lower-casing; text on the lines after a line comment is kept.
C21_NormalizeOrder ==
    (pc = "normalized" /\ StripsComments(variant)) => nText = ReferenceNormalize(text)

\* Index of the first "/*" of s, or 0.
RECURSIVE OpenAt(_, _)
OpenAt(s, i) ==
    IF i + 1 > Len(s) THEN 0
    ELSE IF s[i] = "/" /\ s[i + 1] = "*" THEN i
    ELSE OpenAt(s, i + 1)

\* The first block-comment open marker of t has no close marker after it,
\* and stands in no line comment.
OpenForever(t) ==
    LET i == OpenAt(t, 1)
    IN  /\ i # 0
        /\ CloseAt(t, i + 2) = 0
        /\ \A j \in 1..(Len(t) - 1) : ~(t[j] = "-" /\ t[j + 1] = "-")

\* C22: when the first block-comment open marker of a definition has no
\* close marker after it, the normalized text is that of the text before
\* the marker: nothing from the marker on appears in it.
C22_UnterminatedCommentDropped ==
    (pc = "normalized" /\ StripsComments(variant) /\ OpenForever(text))
        => nText = Normalize(variant, SubSeq(text, 1, OpenAt(text, 1) - 1))

(***************************************************************************)
(* Properties of the metadata lines (checked under SpecFields).            *)
(***************************************************************************)
\* C23: the value of a field is the rest of the first line with its label
\* that has a rest, whole and of that line alone: the keys of the mapping
\* are those made of the values on the Database, Schema and Name lines of
\* the blocks in which each of these lines has a value.
C23_FieldValues ==
    SourceParsed => SourceKeys = WellFormedKeys(variant, source_blocks)

(***************************************************************************)
(* Further properties of parsing (checked under SpecParse).                *)
(***************************************************************************)
RECURSIVE DropBlankHead(_)
DropBlankHead(lines) ==
    IF lines # <<>> /\ Strip(Head(lines)) = <<>> THEN DropBlankHead(Tail(lines)) ELSE lines

RECURSIVE DropBlankLast(_)
DropBlankLast(lines) ==
    IF lines # <<>> /\ Strip(lines[Len(lines)]) = <<>>
    THEN DropBlankLast(SubSeq(lines, 1, Len(lines) - 1)) ELSE lines

\* The text between the definition markers without its leading and
\* trailing blank lines.
Verbatim(body) == JoinLines(DropBlankLast(DropBlankHead(SplitLinesLF(body))))

AllWellFormed(blocks) == \A i \in 1..Len(blocks) : WellFormed(blocks[i])

\* The last block of blocks with key k.
LastBlock(v, blocks, k) ==
    LET I == { i \in 1..Len(blocks) : KeyOf(v, blocks[i]) = k }
    IN  blocks[CHOOSE i \in I : \A j \in I : j <= i]

\* C24: the definition kept of a block is the text between its definition
\* markers, line by line as it stands (indentation of the lines after the
\* first included), without the leading and trailing blank lines.
C24_DefinitionVerbatim ==
    (SourceParsed /\ AllWellFormed(source_blocks)) =>
        \A k \in SourceKeys :
            source_procs[k].definition = Verbatim(LastBlock(variant, source_blocks, k).def.body)

(***************************************************************************)
(* Properties of the line diff (checked under SpecDiff).                   *)
(***************************************************************************)
\* C26: every entry of the changed bucket carries a line diff that is not
\* empty.
C26_DiffNotEmpty ==
    Compared => \A k \in ChangedKeys : different_procs[k] # <<>>

(***************************************************************************)
(* Properties of the end markers (checked under SpecEnd).                  *)
(***************************************************************************)
\* Block i has both its markers, comes after a block without end marker,
\* and no later block has its key.
AfterUnclosed(v, blocks, i) ==
    /\ blocks[i].end
    /\ \E j \in 1..(i - 1) : ~blocks[j].end
    /\ \A j \in (i + 1)..Len(blocks) : KeyOf(v, blocks[j]) # KeyOf(v, blocks[i])

\* C28: a block with both markers and all fields that comes after a block
\* without end marker is in the mapping, under its own name and with its
\* own definition.
C28_UnclosedBlockHidesNothing ==
    SourceParsed =>
        \A i \in 1..Len(source_blocks) :
            AfterUnclosed(variant, source_blocks, i) =>
                /\ KeyOf(variant, source_blocks[i]) \in SourceKeys
                /\ source_procs[KeyOf(variant, source_blocks[i])].definition
                       = KeptDefinition(variant, source_blocks[i].def.body)

(***************************************************************************)
(* Properties of the JSON report (checked under Spec).                     *)
(***************************************************************************)
\* The counts of a results dict agree with its lists and with each other.
Consistent(json) ==
    LET s == json.summary
    IN  /\ s.only_in_source = Len(json.only_in_source)
        /\ s.only_in_target = Len(json.only_in_target)
        /\ s.different = Len(json.different)
        /\ s.source_total - s.only_in_source = s.target_total - s.only_in_target
        /\ s.different <= s.source_total - s.only_in_source

\* C29: in the JSON file of a run, of the stored procedure comparer or of
\* the Python file comparer, the three counts of the summary are the
\* lengths of the three lists, source_total - only_in_source is
\* target_total - only_in_target, and different is at most that number.
C29_JsonCountsConsistent ==
    \A name \in {JsonName, PyJsonName} :
        (Reported /\ RunWrote(name)) => Consistent(out_dir[RunFile(name)].content)

C29_Witness ==
    /\ Reported
    /\ RunWrote(JsonName)
    /\ LET s == out_dir[RunFile(JsonName)].content.summary
       IN  s.only_in_source = 1 /\ s.only_in_target = 0 /\ s.different = 1

(***************************************************************************)
(* Properties of the Python file comparer (checked under SpecPy).          *)
(***************************************************************************)
\* The result of the last call on a comparer that has had no call before.
FreshResults == get_comparison_results(Called(NewComparer, source_blocks).source_files,
                                       Called(NewComparer, source_blocks).target_files)

\* C25: the result of a run on a comparer object is the result of the same
\* call on a new comparer, whatever calls the object has had before.
C25_RunsIndependent ==
    (variant = "pycmp" /\ Compared) =>
        /\ only_in_source = FreshResults.only_in_source
        /\ only_in_target = FreshResults.only_in_target
        /\ different_procs = FreshResults.different_files

\* The file name is in both dicts, and the target content is the source
\* content with a comment after its last line of code.
CommentOnly(name) ==
    /\ name \in DOMAIN source_procs
    /\ name \in DOMAIN target_procs
    /\ target_procs[name].content = source_procs[name].content \o Comment

\* C27: two files that differ only in a comment outside the docstrings
\* have the same normalized content and the same hash, and are not in the
\* bucket of the different files.
C27_CommentsIgnored ==
    (variant = "pycmp" /\ Compared) =>
        \A name \in PyNames :
            CommentOnly(name) =>
                /\ target_procs[name].normalized_content = source_procs[name].normalized_content
                /\ target_procs[name].hash = source_procs[name].hash
                /\ name \notin DOMAIN different_procs

\* C30: on a comparer that has had calls of compare_specific_files only,
\* the two dicts have the same keys, and the buckets of the files on one
\* side only are empty.
C30_PairModeSameKeys ==
    (variant = "pycmp" /\ side = "pairs") =>
        /\ DOMAIN source_procs = DOMAIN target_procs
        /\ Compared => (only_in_source = {} /\ only_in_target = {})

C30_Witness ==
    /\ variant = "pycmp"
    /\ side = "pairs"
    /\ Compared
    /\ run = 2
    /\ DOMAIN source_procs = { <<"a">> }
    /\ \E i \in 1..Len(source_blocks.file_pairs) : source_blocks.file_pairs[i].target = NoFile

=============================================================================
